---- MODULE Spec2Model ----
(***************************************************************************)
(* A model of the order-maintaining hash table of src/linked-hashtbl.c:    *)
(* a chained hash table whose entries are also threaded on a circular,     *)
(* sentinel-based doubly-linked list (all_entries).                        *)
(*                                                                         *)
(* The C heap is modelled as a function from entry addresses (positive     *)
(* integers) to entry records; address 0 is NULL when used as an entry     *)
(* pointer.  A list node is named by the address of the entry that embeds  *)
(* it (offsetof(struct l_hashtbl_entry, list) is 0), and the sentinel      *)
(* &h->all_entries is named HEAD.  The bucket array is stored sparsely: a  *)
(* slot that is not in the domain of h.table holds NULL.                   *)
(*                                                                         *)
(* The C functions are translated as operators that take the state         *)
(* s = [h |-> struct l_hashtbl, heap |-> entries, blocks |-> the blocks    *)
(* obtained from malloc_fn and not yet given to free_fn] and return the    *)
(* new state, the return value and the calls made to the caller's          *)
(* functions; the actions apply them to the variables.                     *)
(***************************************************************************)
EXTENDS Integers, Sequences, FiniteSets, TLC

VARIABLES h, heap, blocks, handle, iter, last, env, recency, inserted, trace,
          plain, leb

vars == <<h, heap, blocks, handle, iter, last, env, recency, inserted, trace,
          plain, leb>>

(***************************************************************************)
(* Bounds of the model.                                                    *)
(***************************************************************************)
MaxKey == 3          \* number of distinct keys the callers use
MaxVal == 2          \* number of distinct values the callers use
MaxCapacity == 4     \* largest capacity a caller asks for (create, resize)
MaxEvict == 2        \* largest N of an evict-when-count>N policy
MaxAfter == 2        \* calls of l_hashtbl_iter_next counted after exhaustion

NULL == 0
HEAD == 0

\* The address of the table record and of a bucket array, when allocated.
H == 1
TABLE == 1

LINKED_HASHTBL_MAX_TABLE_SIZE == 1073741824

\* The range of int.
INT_MAX == 2147483647
INT_MIN == -INT_MAX - 1

\* 2 * x in int arithmetic.  The product of line 262 overflows when x is
\* the maximum table size; the behaviour is then undefined, and overflow is
\* the value the build yields.
IntOverflows == {INT_MIN, -1, 0, 1, 3, LINKED_HASHTBL_MAX_TABLE_SIZE, INT_MAX}

int_twice(x, overflow) == IF x > INT_MAX \div 2 THEN overflow ELSE 2 * x

\* The values to draw overflow from: where the product does not overflow,
\* overflow is not used and one value stands for all.
TwiceOverflows(x) == IF x > INT_MAX \div 2 THEN IntOverflows ELSE {INT_MIN}

Keys == {100 * i : i \in 1..MaxKey}
Vals == 1..MaxVal

\* The keys and policies of the bounded-cache (LRU) specification.
MaxKeyLRU == 4
MaxEvictLRU == 3
KeysLRU == {100 * i : i \in 1..MaxKeyLRU}

\* The keys, capacities and policies of the specifications of allocation
\* failure and of capacity.
MaxKeyMem == 2
MaxCapacityMem == 2
MaxEvictMem == 1
MaxCapacityPair == 1
MaxCapacityPlain == 2
MaxKeyOwn == 2       \* distinct keys of a caller that owns its keys
MaxCopyOwn == 1      \* further key objects that hold the first key
MaxCapacityOwn == 2  \* largest capacity that caller asks for
KeysMem == {100 * i : i \in 1..MaxKeyMem}

AllKeys == Keys \cup KeysLRU \cup KeysMem

(***************************************************************************)
(* Bit operations on non-negative integers.                                *)
(***************************************************************************)
RECURSIVE BitAnd(_, _)
BitAnd(a, b) ==
    IF a = 0 \/ b = 0 THEN 0
    ELSE (a % 2) * (b % 2) + 2 * BitAnd(a \div 2, b \div 2)

RECURSIVE BitXor(_, _)
BitXor(a, b) ==
    IF a = 0 THEN b
    ELSE IF b = 0 THEN a
    ELSE ((a + b) % 2) + 2 * BitXor(a \div 2, b \div 2)

Shr(a, n) == a \div (2 ^ n)

(***************************************************************************)
(* Hash and equality functions the callers plug in.  Every key of the      *)
(* model is below 2^31, so the conversions to unsigned int and back to int *)
(* preserve the value.                                                     *)
(***************************************************************************)
direct_hash(k) ==
    LET h0 == k
        h1 == BitXor(h0, BitXor(Shr(h0, 20), Shr(h0, 12)))
    IN  BitXor(h1, BitXor(Shr(h1, 7), Shr(h1, 4)))

direct_equals(a, b) == a = b

\* A caller's hash function that sends every key to the same hash value.
const_hash(k) == 7

HashFns == {"direct_hash", "const_hash"}

\* The keys of the tests are structs compared by their field k (key_hash,
\* key_equals).  A reference 100 * i + c is the c-th struct whose field k
\* holds i: two references to structs of the same i are equal keys.
key_hash(k) == k \div 100

key_equals(a, b) == a \div 100 = b \div 100

\* The hash values of the keys of the model, tabulated once.
DirectHashes == [k \in AllKeys |-> direct_hash(k)]

hash_fn(fn, k) ==
    IF fn = "direct_hash"
    THEN IF k \in DOMAIN DirectHashes THEN DirectHashes[k] ELSE direct_hash(k)
    ELSE IF fn = "key_hash" THEN key_hash(k)
    ELSE const_hash(k)

equals_fn(fn, a, b) ==
    IF fn = "key_equals" THEN key_equals(a, b) ELSE direct_equals(a, b)

(***************************************************************************)
(* Eviction policies: the default remove_eldest never evicts; the policy   *)
(* of the tests evicts when count > n.                                     *)
(***************************************************************************)
remove_eldest(nentries) == FALSE

count_gt(n, nentries) == nentries > n

Evictors == {[kind |-> "remove_eldest", n |-> 0]}
            \cup {[kind |-> "count_gt", n |-> n] : n \in 0..MaxEvict}

evictor_fn(ev, nentries) ==
    IF ev.kind = "remove_eldest" THEN remove_eldest(nentries)
    ELSE count_gt(ev.n, nentries)

(***************************************************************************)
(* Load factors are rationals num/den; 3/4 is the default 0.75.            *)
(***************************************************************************)
LoadFactors == {[num |-> 3, den |-> 4]}

\* (int)(capacity * num/den + 0.5), computed on the quotient and the
\* remainder of capacity by den so that no intermediate value leaves the
\* range of int.
resize_threshold(capacity, max_load_factor) ==
    LET num == max_load_factor.num
        den == max_load_factor.den
    IN  (capacity \div den) * num
            + (2 * (capacity % den) * num + den) \div (2 * den)

RECURSIVE roundup_loop(_, _)
roundup_loop(n, x) == IF n < x THEN roundup_loop(2 * n, x) ELSE n

roundup_to_next_power_of_2(x) == roundup_loop(1, x)

is_power_of_2(x) == BitAnd(x, x - 1) = 0

(***************************************************************************)
(* The sparse bucket array.                                                *)
(***************************************************************************)
EmptyTable == [j \in {} |-> NULL]

TableAt(t, i) == IF i \in DOMAIN t THEN t[i] ELSE NULL

TablePut(t, i, e) ==
    IF e = NULL THEN [j \in DOMAIN t \ {i} |-> t[j]]
    ELSE [j \in DOMAIN t \cup {i} |-> IF j = i THEN e ELSE t[j]]

SlotIndex(hashval, table_size) == BitAnd(hashval, table_size - 1)

tbl_entry(s, hashval) == TableAt(s.h.table, SlotIndex(hashval, s.h.table_size))

(***************************************************************************)
(* The intrusive list.                                                     *)
(***************************************************************************)
list_head(s, n) == IF n = HEAD THEN s.h.all_entries ELSE s.heap[n].list

set_next(s, n, v) ==
    IF n = HEAD THEN [s EXCEPT !.h.all_entries.next = v]
    ELSE [s EXCEPT !.heap[n].list.next = v]

set_prev(s, n, v) ==
    IF n = HEAD THEN [s EXCEPT !.h.all_entries.prev = v]
    ELSE [s EXCEPT !.heap[n].list.prev = v]

list_init(s, head) == set_prev(set_next(s, head, head), head, head)

\* Mutant: the node is added between head->prev and head.
list_add_tail(s, node, head) ==
    LET prev == list_head(s, head).prev
        next == head
        s1 == set_next(s, node, next)
        s2 == set_prev(s1, node, prev)
        s3 == set_next(s2, prev, node)
    IN  set_prev(s3, next, node)

\* Mutant: the node is added after head->next.
list_add_second(s, node, head) ==
    LET prev == list_head(s, head).next
        next == list_head(s, prev).next
        s1 == set_next(s, node, next)
        s2 == set_prev(s1, node, prev)
        s3 == set_next(s2, prev, node)
    IN  set_prev(s3, next, node)

list_add_before(s, node, head) ==
    LET prev == head
        next == list_head(s, head).next
        s1 == set_next(s, node, next)
        s2 == set_prev(s1, node, prev)
        s3 == set_next(s2, prev, node)
    IN  set_prev(s3, next, node)

\* Mutant: the successor's prev is left pointing to the removed node.
list_remove_next_only(s, node) ==
    set_next(s, list_head(s, node).prev, list_head(s, node).next)

list_remove(s, node) ==
    LET s1 == set_next(s, list_head(s, node).prev, list_head(s, node).next)
    IN  set_prev(s1, list_head(s1, node).next, list_head(s1, node).prev)

\* Mutant: the test of access_order is inverted.
record_access_inverted(s, entry) ==
    IF ~s.h.access_order
    THEN list_add_before(list_remove(s, entry), entry, HEAD)
    ELSE s

record_access(s, entry) ==
    IF s.h.access_order
    THEN list_add_before(list_remove(s, entry), entry, HEAD)
    ELSE s

(***************************************************************************)
(* Allocation of entry records.  malloc may return the address of any free *)
(* block, and nothing in the table depends on which one; the model's       *)
(* allocator returns block i for the i-th key when that block is free and  *)
(* the lowest free block above those otherwise, so that two runs that      *)
(* build the same table do not differ in their addresses alone.            *)
(***************************************************************************)
malloc_entry(s, k) ==
    LET preferred == k \div 100
        base == Cardinality(AllKeys) + 1
        other == (base..(base + Cardinality(DOMAIN s.heap))) \ DOMAIN s.heap
    IN  IF preferred \notin DOMAIN s.heap THEN preferred
        ELSE CHOOSE e \in other : \A f \in other : e <= f

free_entry(s, e) ==
    [s EXCEPT !.heap = [x \in DOMAIN s.heap \ {e} |-> s.heap[x]]]

(***************************************************************************)
(* The caller's key_free_fn and val_free_fn, when configured, release the  *)
(* object they are given.  blocks.keys and blocks.vals count, for each     *)
(* reference, the calls that released it since the caller obtained it.     *)
(***************************************************************************)
NoneFreed == [r \in {} |-> 0]

TimesFreed(bag, r) == IF r \in DOMAIN bag THEN bag[r] ELSE 0

Release(bag, r) ==
    [x \in DOMAIN bag \cup {r} |-> TimesFreed(bag, x) + IF x = r THEN 1 ELSE 0]

\* if (h->key_free_fn != NULL) h->key_free_fn(k)
key_free_fn(s, k) ==
    IF s.h.key_free_fn THEN [s EXCEPT !.blocks.keys = Release(@, k)] ELSE s

\* if (h->val_free_fn != NULL) h->val_free_fn(v)
val_free_fn(s, v) ==
    IF s.h.val_free_fn THEN [s EXCEPT !.blocks.vals = Release(@, v)] ELSE s

(***************************************************************************)
(* find_entry, remove_key, l_hashtbl_remove.                               *)
(***************************************************************************)
RECURSIVE find_entry_loop(_, _, _, _)
find_entry_loop(s, entry, hv, k) ==
    IF entry = NULL THEN NULL
    ELSE IF s.heap[entry].hash = hv
            /\ equals_fn(s.h.equals_fn, s.heap[entry].key, k)
    THEN entry
    ELSE find_entry_loop(s, s.heap[entry].next, hv, k)

\* Mutant: only the head of the chain is compared.
find_entry_head_only(s, hv, k) ==
    LET entry == tbl_entry(s, hv)
    IN  IF entry # NULL /\ s.heap[entry].hash = hv
           /\ equals_fn(s.h.equals_fn, s.heap[entry].key, k)
        THEN entry ELSE NULL

find_entry(s, hv, k) == find_entry_loop(s, tbl_entry(s, hv), hv, k)

\* A struct l_hashtbl_entry ** is either &h->table[slot] or &entry->next.
slot_ref_get(s, ref) ==
    IF ref.entry = NULL THEN TableAt(s.h.table, ref.slot)
    ELSE s.heap[ref.entry].next

slot_ref_set(s, ref, v) ==
    IF ref.entry = NULL THEN [s EXCEPT !.h.table = TablePut(@, ref.slot, v)]
    ELSE [s EXCEPT !.heap[ref.entry].next = v]

\* Mutant: the hash value is masked with table_size, not table_size - 1.
tbl_entry_ref_size_mask(s, hashval) ==
    [slot |-> BitAnd(hashval, s.h.table_size), entry |-> NULL]

tbl_entry_ref(s, hashval) ==
    [slot |-> SlotIndex(hashval, s.h.table_size), entry |-> NULL]

\* The body of the match in remove_key: unlink entry from its chain and
\* from all_entries.
\* Mutant: the slot is cleared, so the rest of the chain is dropped with
\* the entry.
remove_key_unlink_drops_rest(s, slot_ref, entry) ==
    LET s1 == slot_ref_set(s, slot_ref, NULL)
        s2 == [s1 EXCEPT !.h.nentries = @ - 1]
    IN  list_remove(s2, entry)

\* Mutant: nentries is not decremented.
remove_key_unlink_keeps_count(s, slot_ref, entry) ==
    list_remove(slot_ref_set(s, slot_ref, s.heap[entry].next), entry)

remove_key_unlink(s, slot_ref, entry) ==
    LET s1 == slot_ref_set(s, slot_ref, s.heap[entry].next)
        s2 == [s1 EXCEPT !.h.nentries = @ - 1]
    IN  list_remove(s2, entry)

RECURSIVE remove_key_loop(_, _, _, _, _)
remove_key_loop(s, slot_ref, entry, hv, k) ==
    IF entry = NULL THEN [s |-> s, ret |-> NULL]
    ELSE IF s.heap[entry].hash = hv
            /\ equals_fn(s.h.equals_fn, s.heap[entry].key, k)
    THEN [s |-> remove_key_unlink(s, slot_ref, entry), ret |-> entry]
    ELSE remove_key_loop(s, [slot |-> slot_ref.slot, entry |-> entry],
                         s.heap[entry].next, hv, k)

remove_key(s, k) ==
    LET hv == hash_fn(s.h.hash_fn, k)
        slot_ref == tbl_entry_ref(s, hv)
    IN  remove_key_loop(s, slot_ref, slot_ref_get(s, slot_ref), hv, k)

\* if (h->val_free_fn != NULL && entry->val != NULL) h->val_free_fn(...)
remove_val_free(s, v) == IF v # NULL THEN val_free_fn(s, v) ELSE s

\* The entry remove_key has unlinked gives up its key and its value and is
\* given to free_fn.
remove_release(s, entry) ==
    free_entry(remove_val_free(key_free_fn(s, s.heap[entry].key),
                               s.heap[entry].val), entry)

remove_found(r) ==
    IF r.ret # NULL THEN [s |-> remove_release(r.s, r.ret), ret |-> 0]
    ELSE [s |-> r.s, ret |-> 1]

l_hashtbl_remove(s, k) == remove_found(remove_key(s, k))

(***************************************************************************)
(* l_hashtbl_resize.  malloc_ok says whether the allocation of the new     *)
(* bucket array succeeds.                                                  *)
(***************************************************************************)
\* Mutant: a capacity that is not a power of two is kept as it is.
clamp_capacity_no_roundup(capacity) ==
    IF capacity < 1 THEN 1
    ELSE IF capacity >= LINKED_HASHTBL_MAX_TABLE_SIZE
    THEN LINKED_HASHTBL_MAX_TABLE_SIZE
    ELSE capacity

clamp_capacity(capacity) ==
    IF capacity < 1 THEN 1
    ELSE IF capacity >= LINKED_HASHTBL_MAX_TABLE_SIZE
    THEN LINKED_HASHTBL_MAX_TABLE_SIZE
    ELSE IF ~is_power_of_2(capacity) THEN roundup_to_next_power_of_2(capacity)
    ELSE capacity

\* The transfer loop: every entry, walked along all_entries, is pushed on
\* the head of its chain in the new bucket array.
\* Mutant: the slot is computed for the current table, not the new one.
transfer_slot_old_size(s, node, capacity) ==
    SlotIndex(s.heap[node].hash, s.h.table_size)

transfer_slot(s, node, capacity) == SlotIndex(s.heap[node].hash, capacity)

RECURSIVE resize_transfer(_, _, _, _)
resize_transfer(s, node, new_table, capacity) ==
    IF node = HEAD THEN [s |-> s, table |-> new_table]
    ELSE LET slot == transfer_slot(s, node, capacity)
             s1 == [s EXCEPT !.heap[node].next = TableAt(new_table, slot)]
         IN  resize_transfer(s1, list_head(s1, node).next,
                             TablePut(new_table, slot, node), capacity)

\* Mutant: only a request equal to the current capacity is refused.
resize_no_change_equal_only(s, capacity) == capacity = s.h.table_size

resize_no_change(s, capacity) ==
    capacity < s.h.table_size \/ capacity = s.h.table_size

\* Mutant: the new capacity is stored before the allocation is tested.
resize_alloc_failed_sized(s, capacity) ==
    [s |-> [s EXCEPT !.h.table_size = capacity,
                     !.h.resize_threshold =
                         resize_threshold(capacity, s.h.max_load_factor)],
     ret |-> 1]

resize_alloc_failed(s, capacity) == [s |-> s, ret |-> 1]

\* Mutant: the old bucket array is not released.
resize_install_keeps_old(s, new_table, capacity) ==
    [s EXCEPT !.h.table_ptr = TABLE,
              !.h.table = new_table,
              !.h.table_size = capacity,
              !.h.resize_threshold =
                  resize_threshold(capacity, s.h.max_load_factor)]

\* The end of l_hashtbl_resize: the old bucket array is released and the
\* new one takes its place.
resize_install(s, new_table, capacity) ==
    LET s1 == IF s.h.table_ptr # NULL
              THEN [s EXCEPT !.blocks.table = @ - 1]
              ELSE s
    IN  [s1 EXCEPT !.h.table_ptr = TABLE,
                   !.h.table = new_table,
                   !.h.table_size = capacity,
                   !.h.resize_threshold =
                       resize_threshold(capacity, s.h.max_load_factor)]

l_hashtbl_resize(s, requested, malloc_ok) ==
    LET capacity == clamp_capacity(requested)
    IN  IF resize_no_change(s, capacity) THEN [s |-> s, ret |-> 0]
        ELSE IF ~malloc_ok THEN resize_alloc_failed(s, capacity)
        ELSE LET s1 == [s EXCEPT !.blocks.table = @ + 1]
                 t == resize_transfer(s1, s1.h.all_entries.next,
                                      EmptyTable, capacity)
             IN  [s |-> resize_install(t.s, t.table, capacity), ret |-> 0]

(***************************************************************************)
(* l_hashtbl_insert.  entry_ok and table_ok say whether malloc_fn gives    *)
(* the entry record and the bucket array of an automatic resize; overflow  *)
(* is the value of 2 * table_size when that product overflows.  The result *)
(* carries, besides the state and the return value, the calls made to the  *)
(* eviction hook (the count passed to each) and to l_hashtbl_resize (the   *)
(* capacity passed to each).                                               *)
(***************************************************************************)
new_entry(k, v, hv, next) ==
    [list |-> [next |-> NULL, prev |-> NULL],
     next |-> next, key |-> k, val |-> v, hash |-> hv]

\* Mutant: the entry's key is released with the replaced value.
insert_replace_frees_key(s, entry, v) ==
    [key_free_fn(val_free_fn(s, s.heap[entry].val), s.heap[entry].key)
        EXCEPT !.heap[entry].val = v]

\* Mutant: a value replacement counts as an access.
insert_replace_touch(s, entry, v) ==
    record_access([val_free_fn(s, s.heap[entry].val)
                      EXCEPT !.heap[entry].val = v], entry)

insert_replace(s, entry, v) ==
    [val_free_fn(s, s.heap[entry].val) EXCEPT !.heap[entry].val = v]

\* Mutant: the entry is counted before the allocation is tested.
insert_alloc_failed_counted(s) ==
    [s |-> [s EXCEPT !.h.nentries = @ + 1], ret |-> 1,
     evictor |-> <<>>, resize |-> <<>>]

insert_alloc_failed(s) ==
    [s |-> s, ret |-> 1, evictor |-> <<>>, resize |-> <<>>]

\* Mutant: the entry at the head of all_entries (the newest) is evicted.
insert_evict_newest(s) ==
    IF evictor_fn(s.h.evictor_fn, s.h.nentries)
    THEN LET node == s.h.all_entries.next
         IN  [s |-> l_hashtbl_remove(s, s.heap[node].key).s,
              evictor |-> <<s.h.nentries>>]
    ELSE [s |-> s, evictor |-> <<s.h.nentries>>]

\* Mutant: the hook is given the count from before the insert.
insert_evict_stale(s) ==
    IF evictor_fn(s.h.evictor_fn, s.h.nentries - 1)
    THEN LET node == s.h.all_entries.prev
         IN  [s |-> l_hashtbl_remove(s, s.heap[node].key).s,
              evictor |-> <<s.h.nentries - 1>>]
    ELSE [s |-> s, evictor |-> <<s.h.nentries - 1>>]

\* Mutant: the entry that has just been linked is never evicted.
insert_evict_spares_new(s) ==
    IF evictor_fn(s.h.evictor_fn, s.h.nentries)
       /\ s.h.all_entries.prev # s.h.all_entries.next
    THEN LET node == s.h.all_entries.prev
         IN  [s |-> l_hashtbl_remove(s, s.heap[node].key).s,
              evictor |-> <<s.h.nentries>>]
    ELSE [s |-> s, evictor |-> <<s.h.nentries>>]

insert_evict(s) ==
    IF evictor_fn(s.h.evictor_fn, s.h.nentries)
    THEN LET node == s.h.all_entries.prev
         IN  [s |-> l_hashtbl_remove(s, s.heap[node].key).s,
              evictor |-> <<s.h.nentries>>]
    ELSE [s |-> s, evictor |-> <<s.h.nentries>>]

insert_auto_resize(s, table_ok, overflow) ==
    IF s.h.auto_resize /\ s.h.nentries >= s.h.resize_threshold
    THEN LET capacity == int_twice(s.h.table_size, overflow)
             r == l_hashtbl_resize(s, capacity, table_ok)
         IN  [s |-> r.s, ret |-> r.ret, resize |-> <<capacity>>]
    ELSE [s |-> s, ret |-> 0, resize |-> <<>>]

\* Mutant: the result of the automatic resize is returned.
insert_return_resize(resize_ret) == resize_ret

\* The result of the automatic resize is discarded.
insert_return(resize_ret) == 0

\* Mutant: the automatic resize is decided before the eviction.
insert_finish_resize_first(s, table_ok, overflow) ==
    LET a == insert_auto_resize(s, table_ok, overflow)
        e == insert_evict(a.s)
    IN  [s |-> e.s, ret |-> insert_return(a.ret),
         evictor |-> e.evictor, resize |-> a.resize]

\* The end of an insert that has linked a new entry: the eviction, then
\* the automatic resize.
insert_finish(s, table_ok, overflow) ==
    LET e == insert_evict(s)
        a == insert_auto_resize(e.s, table_ok, overflow)
    IN  [s |-> a.s, ret |-> insert_return(a.ret),
         evictor |-> e.evictor, resize |-> a.resize]

l_hashtbl_insert(s, k, v, entry_ok, table_ok, overflow) ==
    LET hv == hash_fn(s.h.hash_fn, k)
        found == find_entry(s, hv, k)
    IN  IF found # NULL
        THEN [s |-> insert_replace(s, found, v), ret |-> 0,
              evictor |-> <<>>, resize |-> <<>>]
        ELSE IF ~entry_ok THEN insert_alloc_failed(s)
        ELSE LET entry == malloc_entry(s, k)
                 slot_ref == tbl_entry_ref(s, hv)
                 s1 == [s EXCEPT !.heap = @ @@
                          (entry :> new_entry(k, v, hv,
                                              slot_ref_get(s, slot_ref)))]
                 s2 == slot_ref_set(s1, slot_ref, entry)
                 s3 == list_add_before(s2, entry, HEAD)
                 s4 == [s3 EXCEPT !.h.nentries = @ + 1]
             IN  insert_finish(s4, table_ok, overflow)

(***************************************************************************)
(* l_hashtbl_lookup, l_hashtbl_clear, l_hashtbl_count, l_hashtbl_capacity. *)
(***************************************************************************)
\* Mutant: the found entry is moved whatever the mode.
l_hashtbl_lookup_always_moves(s, k) ==
    LET hv == hash_fn(s.h.hash_fn, k)
        entry == find_entry(s, hv, k)
    IN  IF entry # NULL
        THEN [s |-> list_add_before(list_remove(s, entry), entry, HEAD),
              ret |-> s.heap[entry].val]
        ELSE [s |-> s, ret |-> NULL]

l_hashtbl_lookup(s, k) ==
    LET hv == hash_fn(s.h.hash_fn, k)
        entry == find_entry(s, hv, k)
    IN  IF entry # NULL
        THEN [s |-> record_access(s, entry), ret |-> s.heap[entry].val]
        ELSE [s |-> s, ret |-> NULL]

RECURSIVE clear_loop(_, _, _)
clear_loop(s, node, tmp) ==
    IF node = HEAD THEN s
    ELSE LET f1 == key_free_fn(s, s.heap[node].key)
             f2 == val_free_fn(f1, s.heap[node].val)
             s1 == list_remove(f2, node)
             s2 == free_entry(s1, node)
             s3 == [s2 EXCEPT !.h.nentries = @ - 1]
         IN  clear_loop(s3, tmp, list_head(s3, tmp).next)

\* Mutant: the bucket array is not zeroed.
clear_table_kept(s) == s

\* memset(h->table, 0, nbytes)
clear_table(s) == [s EXCEPT !.h.table = EmptyTable]

l_hashtbl_clear(s) ==
    LET node == s.h.all_entries.next
        tmp == list_head(s, node).next
        s1 == clear_loop(s, node, tmp)
    IN  list_init(clear_table(s1), HEAD)

l_hashtbl_count(s) == s.h.nentries

l_hashtbl_capacity(s) == s.h.table_size

(***************************************************************************)
(* l_hashtbl_create.  h_ok and table_ok say whether malloc_fn gives the    *)
(* table record and the bucket array.  The state of a failed create has no *)
(* table record: its h is NoTable.                                         *)
(***************************************************************************)
clamp_load_factor(max_load_factor) ==
    IF max_load_factor.num < 0 THEN [num |-> 3, den |-> 4]
    ELSE IF max_load_factor.num > max_load_factor.den
    THEN [num |-> 1, den |-> 1]
    ELSE max_load_factor

NoTable ==
    [all_entries |-> [next |-> HEAD, prev |-> HEAD],
     max_load_factor |-> [num |-> 0, den |-> 1],
     hash_fn |-> "NULL", equals_fn |-> "NULL",
     nentries |-> 0, table_size |-> 0, resize_threshold |-> 0,
     auto_resize |-> FALSE, access_order |-> FALSE,
     key_free_fn |-> FALSE, val_free_fn |-> FALSE,
     evictor_fn |-> [kind |-> "NULL", n |-> 0],
     table_ptr |-> NULL, table |-> EmptyTable]

NoBlocks == [h |-> 0, table |-> 0, keys |-> NoneFreed, vals |-> NoneFreed]

Unallocated ==
    [h |-> NoTable, heap |-> [e \in {} |-> NULL], blocks |-> NoBlocks]

\* Mutant: the table record is not released.
free_table_record_leaks(s) == [s EXCEPT !.h = NoTable]

\* free_fn(h)
free_table_record(s) == [s EXCEPT !.h = NoTable, !.blocks.h = @ - 1]

l_hashtbl_create(capacity, max_load_factor, auto_resize, access_order, hashfn, equalsfn, key_free, val_free, evictorfn, h_ok, table_ok) ==
    IF ~h_ok THEN [s |-> Unallocated, ret |-> NULL]
    ELSE LET h0 == [all_entries |-> [next |-> HEAD, prev |-> HEAD],
                    max_load_factor |-> clamp_load_factor(max_load_factor),
                    hash_fn |-> hashfn,
                    equals_fn |-> equalsfn,
                    nentries |-> 0,
                    table_size |-> 0,
                    resize_threshold |-> 0,
                    auto_resize |-> auto_resize,
                    access_order |-> access_order,
                    key_free_fn |-> key_free,
                    val_free_fn |-> val_free,
                    evictor_fn |-> evictorfn,
                    table_ptr |-> NULL,
                    table |-> EmptyTable]
             s0 == [h |-> h0, heap |-> [e \in {} |-> NULL],
                    blocks |-> [NoBlocks EXCEPT !.h = 1]]
             r == l_hashtbl_resize(s0, capacity, table_ok)
         IN  IF r.ret # 0
             THEN [s |-> free_table_record(r.s), ret |-> NULL]
             ELSE [s |-> r.s, ret |-> H]

\* l_hashtbl_delete: the entries are cleared, then the bucket array and the
\* table record are given to free_fn.
l_hashtbl_delete(s) ==
    LET s1 == l_hashtbl_clear(s)
        s2 == [s1 EXCEPT !.blocks.table = @ - 1]
    IN  free_table_record(s2)

(***************************************************************************)
(* The iterator.                                                           *)
(***************************************************************************)
Directions == {-1, 0, 1, 2}

NoIter == [pos |-> NULL, end |-> NULL, direction |-> 0,
           key |-> NULL, val |-> NULL]

\* Mutant: the starting ends are swapped.
l_hashtbl_iter_init_swapped(s, direction) ==
    [pos |-> IF direction >= 1 THEN s.h.all_entries.prev
             ELSE s.h.all_entries.next,
     end |-> HEAD,
     direction |-> direction,
     key |-> NULL,
     val |-> NULL]

l_hashtbl_iter_init(s, direction) ==
    [pos |-> IF direction >= 1 THEN s.h.all_entries.next
             ELSE s.h.all_entries.prev,
     end |-> HEAD,
     direction |-> direction,
     key |-> NULL,
     val |-> NULL]

\* Mutant: the cursor always follows next, whatever the direction.
l_hashtbl_iter_next_always_next(s, it) ==
    LET node == it.pos
    IN  IF node = it.end THEN {[iter |-> it, ret |-> 0]}
        ELSE IF node \in DOMAIN s.heap
        THEN {[iter |-> [it EXCEPT
                           !.pos = s.heap[node].list.next,
                           !.key = s.heap[node].key,
                           !.val = s.heap[node].val],
               ret |-> 1]}
        ELSE {[iter |-> it, ret |-> 1]}

\* Mutant: the cursor is advanced before the test for the end.
l_hashtbl_iter_next_advances_first(s, it) ==
    LET node == it.pos
        step == IF it.direction >= 1 THEN list_head(s, node).next
                ELSE list_head(s, node).prev
    IN  IF node = it.end THEN {[iter |-> [it EXCEPT !.pos = step], ret |-> 0]}
        ELSE {[iter |-> [it EXCEPT !.pos = step,
                                   !.key = s.heap[node].key,
                                   !.val = s.heap[node].val],
               ret |-> 1]}

\* Mutant: the cursor rests on the entry it has yielded and is advanced at
\* the start of the following call.
l_hashtbl_iter_next_rests_on_yielded(s, it) ==
    LET node == IF it.key = NULL \/ it.pos = it.end THEN it.pos
                ELSE IF it.pos \notin DOMAIN s.heap THEN it.end
                ELSE IF it.direction >= 1 THEN s.heap[it.pos].list.next
                ELSE s.heap[it.pos].list.prev
    IN  IF node = it.end THEN {[iter |-> [it EXCEPT !.pos = node], ret |-> 0]}
        ELSE {[iter |-> [it EXCEPT !.pos = node,
                                   !.key = s.heap[node].key,
                                   !.val = s.heap[node].val],
               ret |-> 1]}

\* The outcomes of l_hashtbl_iter_next: a set, because the call reads
\* freed memory when iter.pos is an entry that has been released.
l_hashtbl_iter_next(s, it) ==
    LET node == it.pos
    IN  IF node = it.end THEN {[iter |-> it, ret |-> 0]}
        ELSE IF node \in DOMAIN s.heap
        THEN {[iter |-> [it EXCEPT
                           !.pos = IF it.direction >= 1
                                   THEN s.heap[node].list.next
                                   ELSE s.heap[node].list.prev,
                           !.key = s.heap[node].key,
                           !.val = s.heap[node].val],
               ret |-> 1]}
        ELSE {[iter |-> [it EXCEPT !.pos = p, !.key = k, !.val = v],
               ret |-> 1] :
                  p \in {HEAD, node} \cup DOMAIN s.heap,
                  k \in Keys \cup {NULL}, v \in Vals \cup {NULL}}

\* The loop of the callers (test14, test16): l_hashtbl_iter_next is called
\* until it returns 0, and the key and the value it exposes are collected.
\* fuel bounds the number of calls.
RECURSIVE iter_drain(_, _, _)
iter_drain(s, it, fuel) ==
    LET o == CHOOSE x \in l_hashtbl_iter_next(s, it) : TRUE
    IN  IF o.ret = 0 \/ fuel = 0 THEN <<>>
        ELSE <<[key |-> o.iter.key, val |-> o.iter.val]>>
                 \o iter_drain(s, o.iter, fuel - 1)

(***************************************************************************)
(* l_hashtbl_apply.  The caller's function is given as the value it        *)
(* returns for each key; the result carries the keys it was called with,   *)
(* in the order of the calls.                                              *)
(***************************************************************************)
ApplyRets == {-1, 0, 1, 2}

\* Mutant: the enumeration goes on whatever the function returns.
l_hashtbl_apply_stops_never(ret) == FALSE

\* if (apply(entry->key, entry->val, client_data) != 1) return nentries;
l_hashtbl_apply_stops(ret) == ret # 1

RECURSIVE l_hashtbl_apply_loop(_, _, _, _, _)
l_hashtbl_apply_loop(s, node, fn, nentries, visited) ==
    IF node = HEAD THEN [ret |-> nentries, visited |-> visited]
    ELSE LET key == s.heap[node].key
             n1 == nentries + 1
             v1 == Append(visited, key)
         IN  IF l_hashtbl_apply_stops(fn[key])
             THEN [ret |-> n1, visited |-> v1]
             ELSE l_hashtbl_apply_loop(s, s.heap[node].list.next, fn, n1, v1)

l_hashtbl_apply(s, fn) ==
    l_hashtbl_apply_loop(s, s.h.all_entries.next, fn, 0, <<>>)

(***************************************************************************)
(* The plain chained hash table of src/hashtbl.c.  Its functions are       *)
(* operators on t = [h |-> struct hashtbl, heap |-> entries]; an entry has *)
(* the fields next, key, val and hash.  The static functions of hashtbl.c  *)
(* carry the prefix hashtbl_ here, since linked-hashtbl.c has functions of *)
(* the same names.                                                         *)
(***************************************************************************)
HASHTBL_MAX_TABLE_SIZE == 1073741824

hashtbl_resize_threshold(capacity, max_load_factor) ==
    LET num == max_load_factor.num
        den == max_load_factor.den
    IN  (capacity \div den) * num
            + (2 * (capacity % den) * num + den) \div (2 * den)

hashtbl_tbl_entry(t, hashval) ==
    TableAt(t.h.table, SlotIndex(hashval, t.h.table_size))

hashtbl_tbl_entry_ref(t, hashval) ==
    [slot |-> SlotIndex(hashval, t.h.table_size), entry |-> NULL]

\* Mutant: the count is not decremented.
hashtbl_unlink_entry_keeps_count(t, head, entry) ==
    slot_ref_set(t, head, t.heap[entry].next)

\* *head = entry->next; h->nentries--;
hashtbl_unlink_entry(t, head, entry) ==
    [slot_ref_set(t, head, t.heap[entry].next) EXCEPT !.h.nentries = @ - 1]

\* entry->next = *head; *head = entry; h->nentries++;
hashtbl_link_entry(t, entry) ==
    LET head == hashtbl_tbl_entry_ref(t, t.heap[entry].hash)
        t1 == [t EXCEPT !.heap[entry].next = slot_ref_get(t, head)]
    IN  [slot_ref_set(t1, head, entry) EXCEPT !.h.nentries = @ + 1]

RECURSIVE hashtbl_find_entry_loop(_, _, _, _)
hashtbl_find_entry_loop(t, entry, hv, k) ==
    IF entry = NULL THEN NULL
    ELSE IF t.heap[entry].hash = hv
            /\ equals_fn(t.h.equals_fn, t.heap[entry].key, k)
    THEN entry
    ELSE hashtbl_find_entry_loop(t, t.heap[entry].next, hv, k)

hashtbl_find_entry(t, hv, k) ==
    hashtbl_find_entry_loop(t, hashtbl_tbl_entry(t, hv), hv, k)

RECURSIVE hashtbl_remove_key_loop(_, _, _, _, _)
hashtbl_remove_key_loop(t, head, entry, hv, k) ==
    IF entry = NULL THEN [t |-> t, ret |-> NULL]
    ELSE IF t.heap[entry].hash = hv
            /\ equals_fn(t.h.equals_fn, t.heap[entry].key, k)
    THEN [t |-> hashtbl_unlink_entry(t, head, entry), ret |-> entry]
    ELSE hashtbl_remove_key_loop(t, [slot |-> head.slot, entry |-> entry],
                                 t.heap[entry].next, hv, k)

hashtbl_remove_key(t, k) ==
    LET hv == hash_fn(t.h.hash_fn, k)
        head == hashtbl_tbl_entry_ref(t, hv)
    IN  hashtbl_remove_key_loop(t, head, slot_ref_get(t, head), hv, k)

\* The record hashtbl_entry_new fills in.
hashtbl_entry_new(hv, k, v) ==
    [next |-> NULL, key |-> k, val |-> v, hash |-> hv]

hashtbl_clamp_capacity(capacity) ==
    IF capacity < 1 THEN 1
    ELSE IF capacity >= HASHTBL_MAX_TABLE_SIZE THEN HASHTBL_MAX_TABLE_SIZE
    ELSE IF ~is_power_of_2(capacity) THEN roundup_to_next_power_of_2(capacity)
    ELSE capacity

\* The lowest slot of a bucket array that holds a chain.  The loops over
\* the slots 0 .. table_size - 1 do nothing at an empty slot, so the model
\* steps from one occupied slot to the next.
FirstSlot(table) == CHOOSE i \in DOMAIN table : \A j \in DOMAIN table : i <= j

\* The transfer loop of hashtbl_resize: slot by slot, the head of the chain
\* is unlinked from the old array and linked into the array of tmp_h.
RECURSIVE hashtbl_resize_transfer(_, _)
hashtbl_resize_transfer(t, tmp_h) ==
    IF DOMAIN t.h.table = {} THEN [t |-> t, tmp_h |-> tmp_h]
    ELSE LET i == FirstSlot(t.h.table)
             entry == t.h.table[i]
             t1 == hashtbl_unlink_entry(t, [slot |-> i, entry |-> NULL],
                                        entry)
             both == [h |-> tmp_h, heap |-> t1.heap]
             linked == hashtbl_link_entry(both, entry)
         IN  hashtbl_resize_transfer([t1 EXCEPT !.heap = linked.heap],
                                     linked.h)

hashtbl_resize(t, requested, malloc_ok) ==
    LET capacity == hashtbl_clamp_capacity(requested)
    IN  IF capacity < t.h.table_size \/ capacity = t.h.table_size
        THEN [t |-> t, ret |-> 0]
        ELSE IF ~malloc_ok THEN [t |-> t, ret |-> 1]
        ELSE LET tmp_h == [t.h EXCEPT !.table = EmptyTable,
                                      !.nentries = 0,
                                      !.table_size = capacity]
                 r == hashtbl_resize_transfer(t, tmp_h)
             IN  [t |-> [r.t EXCEPT
                           !.h.table = r.tmp_h.table,
                           !.h.table_size = r.tmp_h.table_size,
                           !.h.nentries = r.tmp_h.nentries,
                           !.h.resize_threshold =
                               hashtbl_resize_threshold(
                                   capacity, t.h.max_load_factor)],
                  ret |-> 0]

\* The automatic resize of hashtbl_insert, made before the entry record is
\* allocated; its result is discarded.
hashtbl_insert_auto_resize(t, table_ok, overflow) ==
    IF t.h.auto_resize /\ t.h.nentries >= t.h.resize_threshold
    THEN LET capacity == int_twice(t.h.table_size, overflow)
         IN  [t |-> hashtbl_resize(t, capacity, table_ok).t,
              resize |-> <<capacity>>]
    ELSE [t |-> t, resize |-> <<>>]

\* if ((entry = hashtbl_entry_new(h, hv, k, v)) == NULL) return 1;
hashtbl_insert_alloc_failed(t) == [t |-> t, ret |-> 1]

hashtbl_insert(t, k, v, entry_ok, table_ok, overflow) ==
    LET hv == hash_fn(t.h.hash_fn, k)
        found == hashtbl_find_entry(t, hv, k)
    IN  IF found # NULL
        THEN [t |-> [t EXCEPT !.heap[found].val = v], ret |-> 0,
              resize |-> <<>>]
        ELSE LET a == hashtbl_insert_auto_resize(t, table_ok, overflow)
             IN  IF ~entry_ok
                 THEN [t |-> hashtbl_insert_alloc_failed(a.t).t,
                       ret |-> hashtbl_insert_alloc_failed(a.t).ret,
                       resize |-> a.resize]
                 ELSE LET entry == malloc_entry(a.t, k)
                          t1 == [a.t EXCEPT !.heap = @ @@
                                   (entry :> hashtbl_entry_new(hv, k, v))]
                      IN  [t |-> hashtbl_link_entry(t1, entry), ret |-> 0,
                           resize |-> a.resize]

hashtbl_lookup(t, k) ==
    LET entry == hashtbl_find_entry(t, hash_fn(t.h.hash_fn, k), k)
    IN  IF entry # NULL THEN t.heap[entry].val ELSE NULL

hashtbl_remove(t, k) ==
    LET r == hashtbl_remove_key(t, k)
    IN  IF r.ret # NULL
        THEN [t |-> free_entry(r.t, r.ret), ret |-> 0]
        ELSE [t |-> r.t, ret |-> 1]

\* The loops of hashtbl_clear: every entry of every chain is released and
\* the slot is left NULL.
RECURSIVE hashtbl_clear(_)
hashtbl_clear(t) ==
    IF DOMAIN t.h.table = {} THEN t
    ELSE LET i == FirstSlot(t.h.table)
             entry == t.h.table[i]
             next == t.heap[entry].next
             t1 == [free_entry(t, entry) EXCEPT !.h.nentries = @ - 1]
         IN  hashtbl_clear([t1 EXCEPT !.h.table = TablePut(@, i, next)])

hashtbl_count(t) == t.h.nentries

hashtbl_capacity(t) == t.h.table_size

hashtbl_clamp_load_factor(max_load_factor) ==
    IF max_load_factor.num < 0 THEN [num |-> 3, den |-> 4]
    ELSE IF max_load_factor.num > max_load_factor.den
    THEN [num |-> 1, den |-> 1]
    ELSE max_load_factor

NoHashtbl ==
    [max_load_factor |-> [num |-> 0, den |-> 1],
     hash_fn |-> "NULL", equals_fn |-> "NULL",
     nentries |-> 0, table_size |-> 0, resize_threshold |-> 0,
     auto_resize |-> FALSE, table |-> EmptyTable]

NoPlainTable == [h |-> NoHashtbl, heap |-> [e \in {} |-> NULL]]

hashtbl_create(capacity, max_load_factor, auto_resize, hashfn, equalsfn, h_ok, table_ok) ==
    IF ~h_ok THEN [t |-> NoPlainTable, ret |-> NULL]
    ELSE LET h0 == [max_load_factor |->
                        hashtbl_clamp_load_factor(max_load_factor),
                    hash_fn |-> hashfn,
                    equals_fn |-> equalsfn,
                    nentries |-> 0,
                    table_size |-> 0,
                    resize_threshold |-> 0,
                    auto_resize |-> auto_resize,
                    table |-> EmptyTable]
             r == hashtbl_resize([h |-> h0, heap |-> [e \in {} |-> NULL]],
                                 capacity, table_ok)
         IN  IF r.ret # 0 THEN [t |-> NoPlainTable, ret |-> NULL]
             ELSE [t |-> r.t, ret |-> H]

\* if (!apply(entry->key, entry->val, client_data)) return nentries;
hashtbl_apply_stops(ret) == ret = 0

\* The slots above i that hold a chain, lowest first.
RECURSIVE SlotsFrom(_, _)
SlotsFrom(table, i) ==
    LET rest == {j \in DOMAIN table : j >= i}
    IN  IF rest = {} THEN <<>>
        ELSE LET j == CHOOSE x \in rest : \A y \in rest : x <= y
             IN  <<j>> \o SlotsFrom(table, j + 1)

RECURSIVE hashtbl_apply_loop(_, _, _, _, _, _)
hashtbl_apply_loop(t, slots, entry, fn, nentries, visited) ==
    IF entry = NULL
    THEN IF slots = <<>> THEN [ret |-> nentries, visited |-> visited]
         ELSE hashtbl_apply_loop(t, Tail(slots), t.h.table[Head(slots)], fn,
                                 nentries, visited)
    ELSE LET key == t.heap[entry].key
             n1 == nentries + 1
             v1 == Append(visited, key)
         IN  IF hashtbl_apply_stops(fn[key])
             THEN [ret |-> n1, visited |-> v1]
             ELSE hashtbl_apply_loop(t, slots, t.heap[entry].next, fn,
                                     n1, v1)

hashtbl_apply(t, fn) ==
    hashtbl_apply_loop(t, SlotsFrom(t.h.table, 0), NULL, fn, 0, <<>>)

(***************************************************************************)
(* The iterator of the plain table.                                        *)
(***************************************************************************)
NoHashtblIter == [key |-> NULL, val |-> NULL, pos |-> 0, entry |-> NULL]

hashtbl_iter_init(t) ==
    [key |-> NULL, val |-> NULL, pos |-> 0, entry |-> NULL]

\* for (i = iter->pos; i < h->table_size; i++) ...
RECURSIVE hashtbl_iter_scan(_, _, _)
hashtbl_iter_scan(t, it, i) ==
    IF i >= t.h.table_size THEN [iter |-> it, ret |-> 0]
    ELSE LET entry == TableAt(t.h.table, i)
             it1 == [it EXCEPT !.entry = entry, !.pos = i]
         IN  IF entry # NULL
             THEN [iter |-> [it1 EXCEPT !.key = t.heap[entry].key,
                                        !.val = t.heap[entry].val],
                   ret |-> 1]
             ELSE hashtbl_iter_scan(t, it1, i + 1)

\* Mutant: at the end of a chain the scan resumes at the same slot.
hashtbl_iter_next_same_slot(t, it) ==
    IF it.entry # NULL /\ t.heap[it.entry].next # NULL
    THEN LET entry == t.heap[it.entry].next
         IN  [iter |-> [it EXCEPT !.entry = entry,
                                  !.key = t.heap[entry].key,
                                  !.val = t.heap[entry].val],
              ret |-> 1]
    ELSE hashtbl_iter_scan(t, [it EXCEPT !.entry = NULL], it.pos)

hashtbl_iter_next(t, it) ==
    IF it.entry # NULL
    THEN LET entry == t.heap[it.entry].next
         IN  IF entry # NULL
             THEN [iter |-> [it EXCEPT !.entry = entry,
                                       !.key = t.heap[entry].key,
                                       !.val = t.heap[entry].val],
                   ret |-> 1]
             ELSE hashtbl_iter_scan(t, [it EXCEPT !.entry = NULL,
                                                  !.pos = @ + 1],
                                    it.pos + 1)
    ELSE hashtbl_iter_scan(t, it, it.pos)

\* The loop of the callers (test14, test16 of test-hashtbl.c).
RECURSIVE hashtbl_iter_drain(_, _, _)
hashtbl_iter_drain(t, it, fuel) ==
    LET o == hashtbl_iter_next(t, it)
    IN  IF o.ret = 0 \/ fuel = 0 THEN <<>>
        ELSE <<[key |-> o.iter.key, val |-> o.iter.val]>>
                 \o hashtbl_iter_drain(t, o.iter, fuel - 1)

(***************************************************************************)
(* The LEB128 codecs of src/leb128.c.  A value of an integer type of w     *)
(* bits is modelled by its bit pattern: the set of the positions, 0 for    *)
(* the least significant, of its 1 bits; a signed value is in two's        *)
(* complement, so -1 is 0 .. w-1.  A byte is a pattern of 8 bits and a     *)
(* buffer a sequence of bytes.  Every operation keeps the width of its     *)
(* type: a bit shifted to position w or above is lost.                     *)
(***************************************************************************)
LongLongBits == 64

\* sizeof(long) * 8 on the platforms the code is written for.
LongBits == {32, 64}

Zero == {}

MinusOne(w) == 0..(w - 1)

\* value & 0x7f
low7(value) == value \cap 0..6

\* value >>= 7 on an unsigned type
shr7(value) == {b - 7 : b \in {x \in value : x >= 7}}

\* value >>= 7 on a signed type: the sign bit is replicated.
sar7(value, w) ==
    shr7(value) \cup (IF (w - 1) \in value THEN (w - 7)..(w - 1) ELSE {})

\* bits << shift in a type of w bits
shl(bits, shift, w) == {b + shift : b \in bits} \cap 0..(w - 1)

RECURSIVE leb128_encode_unsigned(_)
leb128_encode_unsigned(value) ==
    LET p == low7(value)
        rest == shr7(value)
    IN  IF rest # Zero THEN <<p \cup {7}>> \o leb128_encode_unsigned(rest)
        ELSE <<p>>

RECURSIVE leb128_encode_signed(_, _)
leb128_encode_signed(value, w) ==
    LET byte == low7(value)
        rest == sar7(value, w)
    IN  IF (rest = Zero /\ 6 \notin byte) \/ (rest = MinusOne(w) /\ 6 \in byte)
        THEN <<byte>>
        ELSE <<byte \cup {7}>> \o leb128_encode_signed(rest, w)

\* The encoders return the number of bytes written; buf is what they wrote.
x_leb128_encode_ul(value, w) ==
    LET buf == leb128_encode_unsigned(value) IN [buf |-> buf, ret |-> Len(buf)]

x_leb128_encode_ull(value) ==
    LET buf == leb128_encode_unsigned(value) IN [buf |-> buf, ret |-> Len(buf)]

x_leb128_encode_l(value, w) ==
    LET buf == leb128_encode_signed(value, w)
    IN  [buf |-> buf, ret |-> Len(buf)]

x_leb128_encode_ll(value) ==
    LET buf == leb128_encode_signed(value, LongLongBits)
    IN  [buf |-> buf, ret |-> Len(buf)]

\* The loops of the decoders.  p counts the bytes read: the decoders return
\* buf + p.
RECURSIVE leb128_decode_unsigned(_, _, _, _, _)
leb128_decode_unsigned(buf, p, shift, value, w) ==
    LET byte == buf[p + 1]
        value1 == value \cup shl(low7(byte), shift, w)
    IN  IF 7 \notin byte THEN [result |-> value1, p |-> p + 1]
        ELSE leb128_decode_unsigned(buf, p + 1, shift + 7, value1, w)

\* Mutant: the sign is never extended.
leb128_sign_extend_never(value, byte, shift, w) == value

\* if ((shift < (sizeof *result * 8)) && (byte & 0x40))
\*         value |= -(1L << shift);
leb128_sign_extend(value, byte, shift, w) ==
    IF shift < w /\ 6 \in byte THEN value \cup (shift..(w - 1)) ELSE value

RECURSIVE leb128_decode_signed(_, _, _, _, _)
leb128_decode_signed(buf, p, shift, value, w) ==
    LET byte == buf[p + 1]
        value1 == value \cup shl(low7(byte), shift, w)
        shift1 == shift + 7
    IN  IF 7 \in byte
        THEN leb128_decode_signed(buf, p + 1, shift1, value1, w)
        ELSE [result |-> leb128_sign_extend(value1, byte, shift1, w),
              p |-> p + 1]

x_leb128_decode_ul(buf, w) == leb128_decode_unsigned(buf, 0, 0, Zero, w)

x_leb128_decode_ull(buf) ==
    leb128_decode_unsigned(buf, 0, 0, Zero, LongLongBits)

x_leb128_decode_l(buf, w) == leb128_decode_signed(buf, 0, 0, Zero, w)

x_leb128_decode_ll(buf) == leb128_decode_signed(buf, 0, 0, Zero, LongLongBits)

Codecs == {"ul", "ull", "l", "ll"}

\* The widths a codec is compiled for.
CodecBits(codec) ==
    IF codec \in {"ull", "ll"} THEN {LongLongBits} ELSE LongBits

leb128_encode(codec, value, w) ==
    IF codec = "ul" THEN x_leb128_encode_ul(value, w)
    ELSE IF codec = "ull" THEN x_leb128_encode_ull(value)
    ELSE IF codec = "l" THEN x_leb128_encode_l(value, w)
    ELSE x_leb128_encode_ll(value)

leb128_decode(codec, buf, w) ==
    IF codec = "ul" THEN x_leb128_decode_ul(buf, w)
    ELSE IF codec = "ull" THEN x_leb128_decode_ull(buf)
    ELSE IF codec = "l" THEN x_leb128_decode_l(buf, w)
    ELSE x_leb128_decode_ll(buf)

(***************************************************************************)
(* Observations of a state, used to state the properties.                  *)
(***************************************************************************)
S == [h |-> h, heap |-> heap, blocks |-> blocks]

Reverse(seq) == [i \in 1..Len(seq) |-> seq[Len(seq) + 1 - i]]

Keep(seq, set) == LET Test(x) == x \in set IN SelectSeq(seq, Test)

Without(seq, k) == LET Test(x) == x # k IN SelectSeq(seq, Test)

IsPrefix(a, b) == Len(a) <= Len(b) /\ a = SubSeq(b, 1, Len(a))

LiveKeys(s) == {s.heap[e].key : e \in DOMAIN s.heap}

\* The entries met when following next (forward) or prev from node up to
\* the sentinel; fuel stops the walk on a list that is not closed.
RECURSIVE Walk(_, _, _, _)
Walk(s, node, forward, fuel) ==
    IF node = HEAD \/ node \notin DOMAIN s.heap \/ fuel = 0 THEN <<>>
    ELSE <<node>> \o Walk(s, IF forward THEN s.heap[node].list.next
                             ELSE s.heap[node].list.prev,
                          forward, fuel - 1)

KeysOf(s, nodes) == [i \in 1..Len(nodes) |-> s.heap[nodes[i]].key]

\* Keys along all_entries.next, all_entries.next->next, ...
KeysByNext(s) ==
    KeysOf(s, Walk(s, s.h.all_entries.next, TRUE,
                   Cardinality(DOMAIN s.heap) + 1))

\* Keys along all_entries.prev, all_entries.prev->prev, ...
KeysByPrev(s) ==
    KeysOf(s, Walk(s, s.h.all_entries.prev, FALSE,
                   Cardinality(DOMAIN s.heap) + 1))

\* The chain of a bucket, as a sequence of entries.
RECURSIVE ChainFrom(_, _, _)
ChainFrom(s, entry, fuel) ==
    IF entry = NULL \/ entry \notin DOMAIN s.heap \/ fuel = 0 THEN <<>>
    ELSE <<entry>> \o ChainFrom(s, s.heap[entry].next, fuel - 1)

Chain(s, slot) ==
    ChainFrom(s, TableAt(s.h.table, slot), Cardinality(DOMAIN s.heap) + 1)

\* What l_hashtbl_lookup(k) returns in state s.
LookupVal(s, k) == l_hashtbl_lookup(s, k).ret

\* The contents of the table as the lookups show it.
Contents(s) == [k \in AllKeys |-> LookupVal(s, k)]

PresentKeys(s) == {k \in AllKeys : LookupVal(s, k) # NULL}

(***************************************************************************)
(* History variables.                                                      *)
(*   last      the most recent call: its key, its return value, whether it *)
(*             found the key (for a resize: whether the table grew; for a  *)
(*             clear: whether the table held entries) and, for an insert,  *)
(*             the keys that were evicted                                  *)
(*   recency   the live keys, oldest first: ordered by creation of the     *)
(*             entry in insertion-order mode, by creation or last          *)
(*             successful lookup in access-order mode                      *)
(*   inserted  while only inserts and lookups have been made on a table    *)
(*             with the default eviction policy: the value of the most     *)
(*             recent insert of each key                                   *)
(*   trace     the keys an iterator has yielded since l_hashtbl_iter_init, *)
(*             as long as the table has not been modified since (or, for   *)
(*             a caller that calls the table while it iterates: state      *)
(*             "live", whatever the calls); whether it has reported        *)
(*             exhaustion, and how many calls followed                     *)
(*   env       the caller's functions during the most recent call: what    *)
(*             malloc_fn was set to give (the table record, an entry       *)
(*             record, a bucket array), the counts passed to the eviction  *)
(*             hook and the capacities passed to l_hashtbl_resize; the     *)
(*             load factor passed to l_hashtbl_create; the function passed *)
(*             to l_hashtbl_apply and the keys it was called with          *)
(*   handle    the pointer l_hashtbl_create returned                       *)
(***************************************************************************)
Call(op, k, ret, hit, evicted) ==
    [op |-> op, key |-> k, ret |-> ret, hit |-> hit, evicted |-> evicted]

NoInserts == [k \in AllKeys |-> NULL]

NoHistory == [ok |-> FALSE, map |-> NoInserts]

NoTrace == [state |-> "none", yielded |-> <<>>, done |-> FALSE, after |-> 0]

DirtyTrace ==
    [state |-> "dirty", yielded |-> <<>>, done |-> FALSE, after |-> 0]

TraceAfter(s) ==
    IF trace.state = "clean" /\ s # S THEN DirtyTrace ELSE trace

NoEnv == [h_ok |-> TRUE, entry_ok |-> TRUE, table_ok |-> TRUE,
          evictor |-> <<>>, resize |-> <<>>,
          load_factor |-> [num |-> 0, den |-> 1],
          apply |-> <<>>, visited |-> <<>>]

\* A create with the functions of the caller: fns is the set of the
\* records [hash, equals, key_free, val_free] it may pass.
CreateFns(capacities, load_factors, autos, orders, fns, evictors, oks) ==
    /\ \E capacity \in capacities, lf \in load_factors,
          ar \in autos, ao \in orders, fn \in fns, ev \in evictors,
          h_ok \in oks, table_ok \in oks :
          LET r == l_hashtbl_create(capacity, lf, ar, ao, fn.hash,
                                    fn.equals, fn.key_free, fn.val_free, ev,
                                    h_ok, table_ok)
          IN  /\ h = r.s.h
              /\ heap = r.s.heap
              /\ blocks = r.s.blocks
              /\ handle = r.ret
              /\ last = Call("create", NULL, r.ret, FALSE, {})
              /\ env = [NoEnv EXCEPT
                           !.h_ok = h_ok,
                           !.table_ok = table_ok,
                           !.load_factor = lf,
                           !.resize = IF h_ok THEN <<capacity>> ELSE <<>>]
              /\ inserted = [ok |-> ev.kind = "remove_eldest",
                             map |-> NoInserts]
    /\ iter = NoIter
    /\ recency = <<>>
    /\ trace = NoTrace

\* A create with pointer keys and without free functions.
CreateWith(capacities, load_factors, autos, orders, hashes, evictors, oks) ==
    CreateFns(capacities, load_factors, autos, orders,
              {[hash |-> hf, equals |-> "direct_equals",
                key_free |-> FALSE, val_free |-> FALSE] : hf \in hashes},
              evictors, oks)

Create(capacities, autos, evictors) ==
    CreateWith(capacities, LoadFactors, autos, BOOLEAN, HashFns, evictors,
               {TRUE})

\* A call of the table is a step that gives new values to the table and to
\* the history variables: each call is written as the record of these
\* values, computed from the current state, and Taken(n) is the step that
\* assigns them.  The properties of a call are stated on its record.
Taken(n) ==
    /\ h' = n.h
    /\ heap' = n.heap
    /\ blocks' = n.blocks
    /\ last' = n.last
    /\ env' = n.env
    /\ recency' = n.recency
    /\ inserted' = n.inserted
    /\ trace' = n.trace

\* The table that the step n leaves.
After(n) == [h |-> n.h, heap |-> n.heap, blocks |-> n.blocks]

InsertWithStep(k, v, entry_ok, table_ok, overflow) ==
    LET r == l_hashtbl_insert(S, k, v, entry_ok, table_ok, overflow)
    IN  [h |-> r.s.h,
         heap |-> r.s.heap,
         blocks |-> r.s.blocks,
         last |-> Call("insert", k, r.ret,
                       find_entry(S, hash_fn(h.hash_fn, k), k) # NULL,
                       IF r.ret = 0
                       THEN (LiveKeys(S) \cup {k}) \ LiveKeys(r.s)
                       ELSE {}),
         env |-> [NoEnv EXCEPT !.entry_ok = entry_ok,
                               !.table_ok = table_ok,
                               !.evictor = r.evictor,
                               !.resize = r.resize],
         recency |-> Keep(IF k \in LiveKeys(S) THEN recency
                          ELSE Append(recency, k), LiveKeys(r.s)),
         inserted |-> IF inserted.ok /\ r.ret = 0
                      THEN [inserted EXCEPT !.map[k] = v]
                      ELSE inserted,
         trace |-> TraceAfter(r.s)]

InsertWith(k, v, entry_ok, table_ok, overflow) ==
    /\ Taken(InsertWithStep(k, v, entry_ok, table_ok, overflow))
    /\ UNCHANGED <<handle, iter>>

\* An insert while malloc_fn does not fail.  No table of the callers that
\* use it reaches the maximum size, so the product does not overflow.
Insert(k, v) == InsertWith(k, v, TRUE, TRUE, INT_MIN)

LookupStep(k) ==
    LET r == l_hashtbl_lookup(S, k)
    IN  [h |-> r.s.h,
         heap |-> r.s.heap,
         blocks |-> r.s.blocks,
         last |-> Call("lookup", k, r.ret, r.ret # NULL, {}),
         env |-> NoEnv,
         recency |-> IF r.ret # NULL /\ h.access_order
                     THEN Append(Without(recency, k), k)
                     ELSE recency,
         inserted |-> inserted,
         trace |-> TraceAfter(r.s)]

Lookup(k) == Taken(LookupStep(k)) /\ UNCHANGED <<handle, iter>>

RemoveStep(k) ==
    LET r == l_hashtbl_remove(S, k)
    IN  [h |-> r.s.h,
         heap |-> r.s.heap,
         blocks |-> r.s.blocks,
         last |-> Call("remove", k, r.ret, r.ret = 0, {}),
         env |-> NoEnv,
         recency |-> Keep(recency, LiveKeys(r.s)),
         inserted |-> NoHistory,
         trace |-> TraceAfter(r.s)]

Remove(k) == Taken(RemoveStep(k)) /\ UNCHANGED <<handle, iter>>

ClearStep ==
    LET s == l_hashtbl_clear(S)
    IN  [h |-> s.h,
         heap |-> s.heap,
         blocks |-> s.blocks,
         last |-> Call("clear", NULL, 0, l_hashtbl_count(S) # 0, {}),
         env |-> NoEnv,
         recency |-> Keep(recency, LiveKeys(s)),
         inserted |-> NoHistory,
         trace |-> TraceAfter(s)]

Clear == Taken(ClearStep) /\ UNCHANGED <<handle, iter>>

\* After l_hashtbl_delete the caller holds no table.
Delete ==
    LET s == l_hashtbl_delete(S)
    IN  /\ h' = s.h
        /\ heap' = s.heap
        /\ blocks' = s.blocks
        /\ handle' = NULL
        /\ last' = Call("delete", NULL, 0, l_hashtbl_count(S) # 0, {})
        /\ env' = NoEnv
        /\ recency' = <<>>
        /\ inserted' = NoHistory
        /\ trace' = NoTrace
        /\ UNCHANGED iter

ResizeWithStep(capacity, malloc_ok) ==
    LET r == l_hashtbl_resize(S, capacity, malloc_ok)
    IN  [h |-> r.s.h,
         heap |-> r.s.heap,
         blocks |-> r.s.blocks,
         last |-> Call("resize", NULL, r.ret,
                       r.s.h.table_size # h.table_size, {}),
         env |-> [NoEnv EXCEPT !.table_ok = malloc_ok,
                               !.resize = <<capacity>>],
         recency |-> recency,
         inserted |-> NoHistory,
         trace |-> TraceAfter(r.s)]

ResizeWith(capacity, malloc_ok) ==
    /\ Taken(ResizeWithStep(capacity, malloc_ok))
    /\ UNCHANGED <<handle, iter>>

\* A resize while malloc_fn does not fail.
Resize(capacity) == ResizeWith(capacity, TRUE)

\* l_hashtbl_iter_init by a caller that will leave the table alone while
\* it iterates (state "clean") or that will go on calling it ("live").
IterInitIn(direction, state) ==
    /\ iter' = l_hashtbl_iter_init(S, direction)
    /\ last' = Call("iter_init", NULL, 0, FALSE, {})
    /\ env' = NoEnv
    /\ trace' = [state |-> state, yielded |-> <<>>, done |-> FALSE,
                 after |-> 0]
    /\ UNCHANGED <<h, heap, blocks, handle, recency, inserted>>

IterInit(direction) == IterInitIn(direction, "clean")

IterInitLive(direction) == IterInitIn(direction, "live")

IterNext ==
    /\ trace.state # "none"
    /\ \E o \in l_hashtbl_iter_next(S, iter) :
          /\ iter' = o.iter
          /\ last' = Call("iter_next", NULL, o.ret, FALSE, {})
          /\ trace' = IF trace.state \notin {"clean", "live"} THEN trace
                      ELSE [trace EXCEPT
                               !.yielded = IF o.ret = 1
                                           THEN Append(@, o.iter.key)
                                           ELSE @,
                               !.done = @ \/ o.ret = 0,
                               !.after = IF trace.done /\ @ < MaxAfter
                                         THEN @ + 1
                                         ELSE @]
    /\ env' = NoEnv
    /\ UNCHANGED <<h, heap, blocks, handle, recency, inserted>>

\* The caller drops its iterator.
IterDrop ==
    /\ trace.state # "none"
    /\ iter' = NoIter
    /\ trace' = NoTrace
    /\ last' = Call("iter_drop", NULL, 0, FALSE, {})
    /\ env' = NoEnv
    /\ UNCHANGED <<h, heap, blocks, handle, recency, inserted>>

\* l_hashtbl_apply with a function that returns fn[key] for each key.
Apply(fn) ==
    LET r == l_hashtbl_apply(S, fn)
    IN  /\ last' = Call("apply", NULL, r.ret, FALSE, {})
        /\ env' = [NoEnv EXCEPT !.apply = fn, !.visited = r.visited]
        /\ UNCHANGED <<h, heap, blocks, handle, iter, recency, inserted,
                       trace>>

(***************************************************************************)
(* A caller that owns its keys and values (test8): they are objects it     *)
(* obtains from its allocator and that the table releases through          *)
(* key_free_fn and val_free_fn.  The caller passes no object that has been *)
(* released, and never stores one value object under two different keys.   *)
(***************************************************************************)
KeyRefs == {100 * i : i \in 1..MaxKeyOwn} \cup {100 + c : c \in 1..MaxCopyOwn}

Holders(s, v) == {e \in DOMAIN s.heap : s.heap[e].val = v}

InsertOwnAllowed(k, v) ==
    /\ TimesFreed(blocks.keys, k) = 0
    /\ TimesFreed(blocks.vals, v) = 0
    /\ \A e \in Holders(S, v) : equals_fn(h.equals_fn, heap[e].key, k)

InsertOwn(k, v) ==
    InsertOwnAllowed(k, v) /\ InsertWith(k, v, TRUE, TRUE, INT_MIN)

\* The caller's allocator gives it again a key or a value object that was
\* released once and that the table does not hold.
KeyObtain(k) ==
    /\ TimesFreed(blocks.keys, k) = 1
    /\ k \notin LiveKeys(S)
    /\ blocks' = [blocks EXCEPT
                     !.keys = [x \in DOMAIN @ \ {k} |-> @[x]]]
    /\ last' = Call("key_obtain", k, 0, FALSE, {})
    /\ env' = NoEnv
    /\ UNCHANGED <<h, heap, handle, iter, recency, inserted, trace>>

ValObtain(v) ==
    /\ TimesFreed(blocks.vals, v) = 1
    /\ Holders(S, v) = {}
    /\ blocks' = [blocks EXCEPT
                     !.vals = [x \in DOMAIN @ \ {v} |-> @[x]]]
    /\ last' = Call("val_obtain", v, 0, FALSE, {})
    /\ env' = NoEnv
    /\ UNCHANGED <<h, heap, handle, iter, recency, inserted, trace>>

(***************************************************************************)
(* The plain table of a caller, and the calls it makes on it.  plain holds *)
(* the table (h, heap), the pointer hashtbl_create returned (handle), the  *)
(* caller's iterator (iter) and the history of the calls: last, env and    *)
(* trace as for the linked table.                                          *)
(***************************************************************************)
P == [h |-> plain.h, heap |-> plain.heap]

PlainCall(op, k, ret, hit) == [op |-> op, key |-> k, ret |-> ret, hit |-> hit]

NoPlainEnv == [entry_ok |-> TRUE, table_ok |-> TRUE, resize |-> <<>>,
               load_factor |-> [num |-> 0, den |-> 1],
               apply |-> <<>>, visited |-> <<>>]

NoPlain ==
    [h |-> NoHashtbl, heap |-> [e \in {} |-> NULL], handle |-> NULL,
     iter |-> NoHashtblIter, last |-> PlainCall("none", NULL, 0, FALSE),
     env |-> NoPlainEnv, trace |-> NoTrace]

\* What hashtbl_lookup(k) returns on the plain table t.
PlainContents(t) == [k \in AllKeys |-> hashtbl_lookup(t, k)]

PlainPresentKeys(t) == {k \in AllKeys : hashtbl_lookup(t, k) # NULL}

PlainTraceAfter(t) ==
    IF plain.trace.state = "clean" /\ t # P THEN DirtyTrace ELSE plain.trace

PlainCreated(capacity, lf, ar, hf, h_ok, table_ok) ==
    LET r == hashtbl_create(capacity, lf, ar, hf, "direct_equals",
                            h_ok, table_ok)
    IN  [NoPlain EXCEPT
           !.h = r.t.h,
           !.heap = r.t.heap,
           !.handle = r.ret,
           !.last = PlainCall("create", NULL, r.ret, FALSE),
           !.env = [NoPlainEnv EXCEPT
                      !.table_ok = table_ok,
                      !.load_factor = lf,
                      !.resize = IF h_ok THEN <<capacity>> ELSE <<>>]]

PlainInsertWith(k, v, entry_ok, table_ok) ==
    LET r == hashtbl_insert(P, k, v, entry_ok, table_ok, INT_MIN)
    IN  plain' = [plain EXCEPT
                    !.h = r.t.h,
                    !.heap = r.t.heap,
                    !.last = PlainCall("insert", k, r.ret,
                                       hashtbl_lookup(P, k) # NULL),
                    !.env = [NoPlainEnv EXCEPT !.entry_ok = entry_ok,
                                               !.table_ok = table_ok,
                                               !.resize = r.resize],
                    !.trace = PlainTraceAfter(r.t)]

PlainInsert(k, v) == PlainInsertWith(k, v, TRUE, TRUE)

PlainLookup(k) ==
    LET ret == hashtbl_lookup(P, k)
    IN  plain' = [plain EXCEPT
                    !.last = PlainCall("lookup", k, ret, ret # NULL),
                    !.env = NoPlainEnv]

PlainRemove(k) ==
    LET r == hashtbl_remove(P, k)
    IN  plain' = [plain EXCEPT
                    !.h = r.t.h,
                    !.heap = r.t.heap,
                    !.last = PlainCall("remove", k, r.ret, r.ret = 0),
                    !.env = NoPlainEnv,
                    !.trace = PlainTraceAfter(r.t)]

PlainClear ==
    LET t == hashtbl_clear(P)
    IN  plain' = [plain EXCEPT
                    !.h = t.h,
                    !.heap = t.heap,
                    !.last = PlainCall("clear", NULL, 0,
                                       hashtbl_count(P) # 0),
                    !.env = NoPlainEnv,
                    !.trace = PlainTraceAfter(t)]

PlainResizeWith(capacity, malloc_ok) ==
    LET r == hashtbl_resize(P, capacity, malloc_ok)
    IN  plain' = [plain EXCEPT
                    !.h = r.t.h,
                    !.heap = r.t.heap,
                    !.last = PlainCall("resize", NULL, r.ret,
                                       r.t.h.table_size # plain.h.table_size),
                    !.env = [NoPlainEnv EXCEPT !.table_ok = malloc_ok,
                                               !.resize = <<capacity>>],
                    !.trace = PlainTraceAfter(r.t)]

PlainResize(capacity) == PlainResizeWith(capacity, TRUE)

PlainApply(fn) ==
    LET r == hashtbl_apply(P, fn)
    IN  plain' = [plain EXCEPT
                    !.last = PlainCall("apply", NULL, r.ret, FALSE),
                    !.env = [NoPlainEnv EXCEPT !.apply = fn,
                                               !.visited = r.visited]]

PlainIterInit ==
    plain' = [plain EXCEPT
                !.iter = hashtbl_iter_init(P),
                !.last = PlainCall("iter_init", NULL, 0, FALSE),
                !.env = NoPlainEnv,
                !.trace = [state |-> "clean", yielded |-> <<>>,
                           done |-> FALSE, after |-> 0]]

PlainIterNext ==
    /\ plain.trace.state # "none"
    /\ LET o == hashtbl_iter_next(P, plain.iter)
       IN  plain' = [plain EXCEPT
                       !.iter = o.iter,
                       !.last = PlainCall("iter_next", NULL, o.ret, FALSE),
                       !.env = NoPlainEnv,
                       !.trace = IF plain.trace.state # "clean" THEN @
                                 ELSE [@ EXCEPT
                                         !.yielded = IF o.ret = 1
                                                     THEN Append(@, o.iter.key)
                                                     ELSE @,
                                         !.done = @ \/ o.ret = 0,
                                         !.after = IF plain.trace.done
                                                      /\ @ < MaxAfter
                                                   THEN @ + 1
                                                   ELSE @]]

\* The caller drops its iterator.
PlainIterDrop ==
    /\ plain.trace.state # "none"
    /\ plain' = [plain EXCEPT
                   !.iter = NoHashtblIter,
                   !.last = PlainCall("iter_drop", NULL, 0, FALSE),
                   !.env = NoPlainEnv,
                   !.trace = NoTrace]

(***************************************************************************)
(* A caller of the codecs: it encodes a value, then decodes the buffer.    *)
(* leb holds the codec, the width of its type, the value, and what the     *)
(* encoder and the decoder gave.                                           *)
(***************************************************************************)
NoLeb == [stage |-> "none", codec |-> "none", w |-> 0, value |-> Zero,
          buf |-> <<>>, ret |-> 0, result |-> Zero, p |-> 0]

\* The values the caller encodes: the patterns that are one run of 1 bits,
\* and their complements.  Among them are 0, -1, the powers of two and
\* their opposites, and the least and the greatest value of the type.
Runs(w) == {lo..hi : lo \in 0..(w - 1), hi \in 0..(w - 1)}

LebValues(w) == Runs(w) \cup {MinusOne(w) \ r : r \in Runs(w)}

LebEncode ==
    /\ leb.stage = "value"
    /\ LET r == leb128_encode(leb.codec, leb.value, leb.w)
       IN  leb' = [leb EXCEPT !.stage = "encoded",
                              !.buf = r.buf, !.ret = r.ret]

LebDecode ==
    /\ leb.stage = "encoded"
    /\ LET r == leb128_decode(leb.codec, leb.buf, leb.w)
       IN  leb' = [leb EXCEPT !.stage = "decoded",
                              !.result = r.result, !.p = r.p]

\* The calls of one specification leave the tables and the codecs of the
\* others alone.
LinkedIdle ==
    UNCHANGED <<h, heap, blocks, handle, iter, last, env, recency,
                inserted, trace>>

LinkedNone ==
    /\ h = NoTable
    /\ heap = [e \in {} |-> NULL]
    /\ blocks = NoBlocks
    /\ handle = NULL
    /\ iter = NoIter
    /\ last = Call("none", NULL, 0, FALSE, {})
    /\ env = NoEnv
    /\ recency = <<>>
    /\ inserted = NoHistory
    /\ trace = NoTrace

Alone == UNCHANGED <<plain, leb>>

NoOthers == plain = NoPlain /\ leb = NoLeb


Init == Create(0..MaxCapacity, BOOLEAN, Evictors) /\ NoOthers

Next ==
    \/ \E k \in Keys, v \in Vals : Insert(k, v) /\ Alone
    \/ \E k \in Keys : Lookup(k) /\ Alone
    \/ \E k \in Keys : Remove(k) /\ Alone
    \/ Clear /\ Alone
    \/ \E capacity \in 0..MaxCapacity : Resize(capacity) /\ Alone

Spec == Init /\ [][Next]_vars

\* The table with an iterator in use.  The caller keeps to the contract of
\* the iterator: it does not call the table between l_hashtbl_iter_init and
\* the moment it drops the iterator.
InitIter ==
    Create({1}, BOOLEAN, {[kind |-> "remove_eldest", n |-> 0]}) /\ NoOthers

NextIter ==
    \/ /\ trace.state = "none"
       /\ \/ \E k \in Keys, v \in Vals : Insert(k, v)
          \/ \E k \in Keys : Lookup(k)
          \/ \E k \in Keys : Remove(k)
          \/ Clear
       /\ Alone
    \/ \E direction \in Directions : IterInit(direction) /\ Alone
    \/ IterNext /\ Alone
    \/ IterDrop /\ Alone

SpecIter == InitIter /\ [][NextIter]_vars

\* A bounded cache: a table with an evict-when-count>N policy, as in test19
\* and test20.
InitLRU ==
    /\ Create({1}, {TRUE},
              {[kind |-> "count_gt", n |-> n] : n \in 0..MaxEvictLRU})
    /\ NoOthers

NextLRU ==
    \/ \E k \in KeysLRU, v \in Vals : Insert(k, v) /\ Alone
    \/ \E k \in KeysLRU : Lookup(k) /\ Alone
    \/ \E k \in KeysLRU : Remove(k) /\ Alone

SpecLRU == InitLRU /\ [][NextLRU]_vars

\* A table whose malloc_fn may fail at any call, as in test21 to test24.
\* The load factor 1/4 gives a capacity of 1 the threshold 0.
EvictorsMem ==
    {[kind |-> "remove_eldest", n |-> 0]}
        \cup {[kind |-> "count_gt", n |-> n] : n \in 0..MaxEvictMem}

LoadFactorsMem == {[num |-> 1, den |-> 4], [num |-> 3, den |-> 4]}

InitMem ==
    /\ CreateWith(1..MaxCapacityMem, LoadFactorsMem, BOOLEAN, {FALSE},
                  {"direct_hash"}, EvictorsMem, BOOLEAN)
    /\ NoOthers

\* A failed create gives the caller no table to call.
NextMem ==
    /\ handle # NULL
    /\ \/ \E k \in KeysMem, v \in Vals, entry_ok \in BOOLEAN,
             table_ok \in BOOLEAN :
             InsertWith(k, v, entry_ok, table_ok, INT_MIN)
       \/ \E k \in KeysMem : Remove(k)
       \/ \E capacity \in 0..MaxCapacity, malloc_ok \in BOOLEAN :
             ResizeWith(capacity, malloc_ok)
    /\ Alone

SpecMem == InitMem /\ [][NextMem]_vars

\* The whole life of a table whose malloc_fn may fail at any call, from
\* l_hashtbl_create to l_hashtbl_delete, as in test23 and test24.
InitLife ==
    /\ CreateWith(1..MaxCapacityMem, LoadFactorsMem, BOOLEAN, {FALSE},
                  {"direct_hash"}, EvictorsMem, BOOLEAN)
    /\ NoOthers

NextLife ==
    /\ handle # NULL
    /\ \/ \E k \in KeysMem, v \in Vals, entry_ok \in BOOLEAN,
             table_ok \in BOOLEAN :
             InsertWith(k, v, entry_ok, table_ok, INT_MIN)
       \/ \E k \in KeysMem : Remove(k)
       \/ \E capacity \in 0..MaxCapacity, malloc_ok \in BOOLEAN :
             ResizeWith(capacity, malloc_ok)
       \/ Clear
       \/ Delete
    /\ Alone

SpecLife == InitLife /\ [][NextLife]_vars

\* Tables of every capacity up to the maximum: the capacities asked for lie
\* around 1 and around LINKED_HASHTBL_MAX_TABLE_SIZE, and a table of load
\* factor 0 doubles at every new entry.
CapRequests ==
    {-1, 2, 3, LINKED_HASHTBL_MAX_TABLE_SIZE - 1,
     LINKED_HASHTBL_MAX_TABLE_SIZE + 1}

LoadFactorsCap == {[num |-> 0, den |-> 1], [num |-> 3, den |-> 4]}

EvictorsCap ==
    {[kind |-> "remove_eldest", n |-> 0],
     [kind |-> "count_gt", n |-> MaxEvictMem]}

InitCap ==
    /\ CreateWith(CapRequests, LoadFactorsCap, BOOLEAN, {FALSE},
                  {"direct_hash"}, EvictorsCap, {TRUE})
    /\ NoOthers

NextCap ==
    \/ \E k \in KeysMem, v \in Vals, table_ok \in BOOLEAN,
          overflow \in TwiceOverflows(h.table_size) :
          InsertWith(k, v, TRUE, table_ok, overflow) /\ Alone
    \/ \E k \in KeysMem : Remove(k) /\ Alone
    \/ Clear /\ Alone
    \/ \E capacity \in CapRequests : Resize(capacity) /\ Alone

SpecCap == InitCap /\ [][NextCap]_vars

\* Tables that resize themselves, with load factors across (0, 1] and
\* every initial capacity up to MaxCapacity; malloc_fn does not fail.
LoadFactorsGrow ==
    {[num |-> 1, den |-> 4], [num |-> 1, den |-> 2], [num |-> 3, den |-> 4],
     [num |-> 1, den |-> 1]}

InitGrow ==
    /\ CreateWith(1..MaxCapacity, LoadFactorsGrow, {TRUE}, {FALSE},
                  {"direct_hash"}, {[kind |-> "remove_eldest", n |-> 0]},
                  {TRUE})
    /\ NoOthers

NextGrow ==
    \/ \E k \in Keys, v \in Vals : Insert(k, v) /\ Alone
    \/ \E k \in Keys : Remove(k) /\ Alone

SpecGrow == InitGrow /\ [][NextGrow]_vars

\* A caller that looks up keys of the table while it iterates over it.
InitTouch ==
    /\ CreateWith({1}, LoadFactors, {TRUE}, BOOLEAN, {"direct_hash"},
                  {[kind |-> "remove_eldest", n |-> 0]}, {TRUE})
    /\ NoOthers

\* The iterator is followed for one call more than the table has entries.
NextTouch ==
    \/ /\ trace.state = "none"
       /\ \/ \E k \in Keys : Insert(k, 1)
          \/ \E k \in Keys : Remove(k)
          \/ \E direction \in Directions : IterInitLive(direction)
       /\ Alone
    \/ /\ trace.state = "live"
       /\ \/ \E k \in PresentKeys(S) : Lookup(k)
          \/ Len(trace.yielded) <= l_hashtbl_count(S) /\ IterNext
          \/ IterDrop
       /\ Alone

SpecTouch == InitTouch /\ [][NextTouch]_vars

\* A caller that removes, while it iterates, the entry the iterator has
\* just yielded.
InitPluck ==
    /\ CreateWith({1}, LoadFactors, {TRUE}, BOOLEAN, HashFns,
                  {[kind |-> "remove_eldest", n |-> 0]}, {TRUE})
    /\ NoOthers

NextPluck ==
    \/ /\ trace.state = "none"
       /\ \/ \E k \in Keys : Insert(k, 1)
          \/ \E k \in Keys : Lookup(k)
          \/ \E direction \in Directions : IterInitLive(direction)
       /\ Alone
    \/ /\ trace.state = "live"
       /\ \/ last.op = "iter_next" /\ last.ret = 1 /\ Remove(iter.key)
          \/ IterNext
          \/ IterDrop
       /\ Alone

SpecPluck == InitPluck /\ [][NextPluck]_vars

\* A table with free functions: the keys are structs compared by their
\* contents, as in test8; the hash function is key_hash, or direct_hash,
\* which gives equal keys different hash values.  The free functions are
\* both configured, as in test8, or both NULL.
FnsOwn ==
    {[hash |-> hf, equals |-> "key_equals", key_free |-> f, val_free |-> f] :
        hf \in {"key_hash", "direct_hash"}, f \in BOOLEAN}

EvictorsOwn ==
    {[kind |-> "remove_eldest", n |-> 0], [kind |-> "count_gt", n |-> 1]}

InitOwn ==
    /\ CreateFns({1}, LoadFactors, BOOLEAN, {FALSE}, FnsOwn, EvictorsOwn,
                 {TRUE})
    /\ NoOthers

\* An object released twice leaves the caller's allocator in an undefined
\* state: the caller is followed no further.
ReleasedTwice ==
    \/ \E k \in DOMAIN blocks.keys : blocks.keys[k] > 1
    \/ \E v \in DOMAIN blocks.vals : blocks.vals[v] > 1

NextOwn ==
    /\ ~ReleasedTwice
    /\ \/ \E k \in KeyRefs, v \in Vals : InsertOwn(k, v)
       \/ \E k \in KeyRefs : Remove(k)
       \/ Clear
       \/ \E capacity \in 1..MaxCapacityOwn : Resize(capacity)
       \/ \E k \in KeyRefs : KeyObtain(k)
       \/ \E v \in Vals : ValObtain(v)
    /\ Alone

SpecOwn == InitOwn /\ [][NextOwn]_vars

\* A caller that keeps a plain table next to a linked table (default
\* eviction policy, insertion order) and makes every call on both, with the
\* same arguments.  The load factor is the default, given as 0.75 or asked
\* for with a negative value; the tables that do not resize themselves are
\* also created with the load factor 0.
LoadFactorsPair == {[num |-> -1, den |-> 1], [num |-> 3, den |-> 4]}

EvictorsPair == {[kind |-> "remove_eldest", n |-> 0]}


\* The functions given to apply: one key is answered with any value, the
\* other keys with 1.
ApplyFns ==
    {[k \in Keys |-> IF k = at THEN ret ELSE 1] :
        at \in Keys, ret \in ApplyRets}

InitPair ==
    /\ \/ CreateWith(1..MaxCapacityPair, LoadFactorsPair, BOOLEAN,
                     {FALSE}, HashFns, EvictorsPair, {TRUE})
       \/ CreateWith(1..MaxCapacityPair, {[num |-> 0, den |-> 1]}, {FALSE},
                     {FALSE}, HashFns, EvictorsPair, {TRUE})
    /\ plain = PlainCreated(env.resize[1], env.load_factor, h.auto_resize,
                            h.hash_fn, TRUE, TRUE)
    /\ leb = NoLeb

NextPair ==
    \/ \E k \in Keys, v \in Vals :
          Insert(k, v) /\ PlainInsert(k, v) /\ UNCHANGED leb
    \/ \E k \in Keys : Lookup(k) /\ PlainLookup(k) /\ UNCHANGED leb
    \/ \E k \in Keys : Remove(k) /\ PlainRemove(k) /\ UNCHANGED leb
    \/ Clear /\ PlainClear /\ UNCHANGED leb
    \/ \E capacity \in 0..(MaxCapacityPair + 1) :
          Resize(capacity) /\ PlainResize(capacity) /\ UNCHANGED leb
    \/ \E fn \in ApplyFns : Apply(fn) /\ PlainApply(fn) /\ UNCHANGED leb

SpecPair == InitPair /\ [][NextPair]_vars

\* A plain table whose malloc_fn may fail at any call, as in test17 to
\* test20 of test-hashtbl.c, and whose caller iterates over it.  The
\* caller does not call the table between hashtbl_iter_init and the moment
\* it drops the iterator.
InitPlain ==
    /\ LinkedNone
    /\ \E capacity \in 1..MaxCapacityPlain, lf \in LoadFactorsMem,
          ar \in BOOLEAN, hf \in HashFns, h_ok \in BOOLEAN,
          table_ok \in BOOLEAN :
          plain = PlainCreated(capacity, lf, ar, hf, h_ok, table_ok)
    /\ leb = NoLeb

NextPlain ==
    /\ plain.handle # NULL
    /\ \/ /\ plain.trace.state = "none"
          /\ \/ \E k \in Keys, v \in Vals, entry_ok \in BOOLEAN,
                   table_ok \in BOOLEAN :
                   PlainInsertWith(k, v, entry_ok, table_ok)
             \/ \E k \in Keys : PlainRemove(k)
       \/ PlainIterInit
       \/ PlainIterNext
       \/ PlainIterDrop
    /\ LinkedIdle
    /\ UNCHANGED leb

SpecPlain == InitPlain /\ [][NextPlain]_vars

\* A caller of the four codec pairs.
InitLeb ==
    /\ LinkedNone
    /\ plain = NoPlain
    /\ \E codec \in Codecs :
          \E w \in CodecBits(codec) :
             \E value \in LebValues(w) :
                leb = [NoLeb EXCEPT !.stage = "value", !.codec = codec,
                                    !.w = w, !.value = value]

NextLeb ==
    \/ LebEncode /\ LinkedIdle /\ UNCHANGED plain
    \/ LebDecode /\ LinkedIdle /\ UNCHANGED plain

SpecLeb == InitLeb /\ [][NextLeb]_vars

(***************************************************************************)
(* Properties.                                                             *)
(***************************************************************************)

\* C1: with the default policy, after any sequence of inserts (and lookups)
\* count is the number of distinct keys inserted and lookup(k) returns the
\* value of the most recent insert of k, for every hash function, initial
\* capacity and auto-resize setting.
C1_InsertsAreRetrievable ==
    inserted.ok =>
        /\ l_hashtbl_count(S)
               = Cardinality({k \in AllKeys : inserted.map[k] # NULL})
        /\ \A k \in AllKeys : LookupVal(S, k) = inserted.map[k]

\* Every key inserted, one of them twice, under the hash function that sends
\* all keys to one bucket.
C1_Witness ==
    /\ inserted.ok
    /\ last.op = "insert"
    /\ h.hash_fn = "const_hash"
    /\ \A k \in Keys : inserted.map[k] # NULL
    /\ inserted.map[last.key] = MaxVal
    /\ h.all_entries.next # last.key \div 100

\* C2: with a policy that evicts exactly when count > N, count does not
\* exceed N on return from any insert.
C2_CountBounded ==
    (h.evictor_fn.kind = "count_gt" /\ last.op = "insert")
        => l_hashtbl_count(S) <= h.evictor_fn.n

\* An insert into a full cache has evicted an entry, in access-order mode.
C2_Witness ==
    /\ h.evictor_fn.kind = "count_gt"
    /\ h.evictor_fn.n = MaxEvict
    /\ h.access_order
    /\ last.op = "insert"
    /\ last.evicted # {}
    /\ l_hashtbl_count(S) = h.evictor_fn.n

\* C3: an insert that evicts removes the oldest live entry: the one created
\* earliest in insertion-order mode, the one whose creation or last
\* successful lookup is oldest in access-order mode.
C3_Step(n) ==
    (n.last.op = "insert" /\ n.last.evicted # {})
        => n.last.evicted = {Head(Append(recency, n.last.key))}

C3_EvictsEldest ==
    \A k \in KeysLRU, v \in Vals :
        C3_Step(InsertWithStep(k, v, TRUE, TRUE, INT_MIN))

\* Inserting 100, 200, 300, 400 under evict-when-count>3 has left exactly
\* {200, 300, 400}.
C3_Witness ==
    /\ h.evictor_fn.n = 3
    /\ ~h.access_order
    /\ last.op = "insert"
    /\ last.key = 400
    /\ last.evicted = {100}
    /\ PresentKeys(S) = {200, 300, 400}
    /\ KeysByNext(S) = <<400, 300, 200>>

\* C4: in access-order mode a successful lookup(k) moves k to the
\* most-recently-used end (all_entries.next) and keeps the relative order of
\* the others; so the traversal order is the order of last use.
C4_LookupStep(n) ==
    (n.last.op = "lookup" /\ n.last.hit /\ h.access_order)
        => KeysByNext(After(n))
               = <<n.last.key>> \o Without(KeysByNext(S), n.last.key)

C4_LookupMovesToFront ==
    /\ h.access_order => KeysByNext(S) = Reverse(recency)
    /\ \A k \in Keys : C4_LookupStep(LookupStep(k))

\* A lookup has brought the oldest of three entries to the front.
C4_Witness ==
    /\ h.access_order
    /\ last.op = "lookup"
    /\ last.hit
    /\ KeysByNext(S) = <<100, 300, 200>>
    /\ last.key = 100

\* The entries of a state without their values.
Skeleton(s) ==
    [e \in DOMAIN s.heap |-> [s.heap[e] EXCEPT !.val = NULL]]

\* C5: an insert of a key that is present replaces the value of its entry
\* and nothing else: count, capacity, the bucket chains and the traversal
\* order are unchanged, in both modes.
C5_ReplaceStep(n) ==
    (n.last.op = "insert" /\ n.last.key \in PresentKeys(S)) =>
        /\ l_hashtbl_count(After(n)) = l_hashtbl_count(S)
        /\ l_hashtbl_capacity(After(n)) = l_hashtbl_capacity(S)
        /\ n.h = h
        /\ Skeleton(After(n)) = Skeleton(S)
        /\ KeysByNext(After(n)) = KeysByNext(S)
        /\ \A k \in AllKeys \ {n.last.key} :
              LookupVal(After(n), k) = LookupVal(S, k)

C5_ReplaceOnlyValue ==
    \A k \in Keys, v \in Vals :
        C5_ReplaceStep(InsertWithStep(k, v, TRUE, TRUE, INT_MIN))

\* In access-order mode the value of the oldest of three entries has been
\* replaced.
C5_Witness ==
    /\ h.access_order
    /\ last.op = "insert"
    /\ last.hit
    /\ l_hashtbl_count(S) = 3
    /\ KeysByPrev(S)[1] = last.key
    /\ LookupVal(S, last.key) = MaxVal

\* C6: a lookup changes nothing in insertion-order mode or when it misses;
\* in access-order mode a hit changes only the traversal position of the
\* found entry.  No lookup changes count, capacity, a key, a value or the
\* bucket chains.
C6_LookupFrameStep(n) ==
    n.last.op = "lookup" =>
        /\ (~h.access_order \/ ~n.last.hit) => (n.h = h /\ n.heap = heap)
        /\ l_hashtbl_count(After(n)) = l_hashtbl_count(S)
        /\ l_hashtbl_capacity(After(n)) = l_hashtbl_capacity(S)
        /\ n.h.table = h.table
        /\ DOMAIN n.heap = DOMAIN heap
        /\ \A e \in DOMAIN heap :
              n.heap[e] = [heap[e] EXCEPT !.list = n.heap[e].list]
        /\ Without(KeysByNext(After(n)), n.last.key)
               = Without(KeysByNext(S), n.last.key)

C6_LookupFrame == \A k \in Keys : C6_LookupFrameStep(LookupStep(k))

\* A hit in access-order mode on a chain of three entries whose head is no
\* longer the newest entry.
C6_Witness ==
    /\ h.access_order
    /\ last.op = "lookup"
    /\ last.hit
    /\ h.hash_fn = "const_hash"
    /\ l_hashtbl_count(S) = 3
    /\ tbl_entry(S, const_hash(last.key)) # h.all_entries.next

\* C7: after remove(k) returns 0, lookup(k) finds nothing and count is one
\* less; remove of an absent key returns 1 and changes nothing.
C7_RemoveStep(n) ==
    n.last.op = "remove" =>
        /\ n.last.ret \in {0, 1}
        /\ n.last.ret = 0 =>
              /\ LookupVal(After(n), n.last.key) = NULL
              /\ l_hashtbl_count(After(n)) = l_hashtbl_count(S) - 1
        /\ n.last.ret = 1 => (n.h = h /\ n.heap = heap)
        /\ n.last.key \notin PresentKeys(S) => n.last.ret = 1

C7_Remove == \A k \in Keys : C7_RemoveStep(RemoveStep(k))

\* The middle entry of a chain of three has been removed.
C7_Witness ==
    /\ last.op = "remove"
    /\ last.ret = 0
    /\ h.hash_fn = "const_hash"
    /\ l_hashtbl_count(S) = 2
    /\ last.key = 200
    /\ KeysByNext(S) = <<300, 100>>

\* C8: a successful resize to a larger capacity changes neither the result
\* of any lookup, nor count, nor the traversal order.
C8_ResizeStep(n) ==
    (n.last.op = "resize" /\ n.last.ret = 0
         /\ l_hashtbl_capacity(After(n)) > l_hashtbl_capacity(S)) =>
        /\ Contents(After(n)) = Contents(S)
        /\ l_hashtbl_count(After(n)) = l_hashtbl_count(S)
        /\ KeysByNext(After(n)) = KeysByNext(S)
        /\ KeysByPrev(After(n)) = KeysByPrev(S)
        /\ n.h.all_entries = h.all_entries
        /\ DOMAIN n.heap = DOMAIN heap
        /\ \A e \in DOMAIN heap :
              n.heap[e] = [heap[e] EXCEPT !.next = n.heap[e].next]

C8_ResizeKeepsContents ==
    \A capacity \in 0..MaxCapacity :
        C8_ResizeStep(ResizeWithStep(capacity, TRUE))

\* A resize has spread three entries over several buckets.
C8_Witness ==
    /\ last.op = "resize"
    /\ last.hit
    /\ l_hashtbl_capacity(S) = 4
    /\ l_hashtbl_count(S) = 3
    /\ Cardinality(DOMAIN h.table) = 3

\* C9, as claimed: an iterator with direction >= 1 starts at the oldest end
\* and yields oldest to newest, any other starts at the newest end and
\* yields newest to oldest.
C9_ForwardOldestFirst ==
    trace.state = "clean" =>
        IsPrefix(trace.yielded,
                 IF iter.direction >= 1 THEN recency ELSE Reverse(recency))

\* C9, amended: an iterator with direction >= 1 starts at the newest end of
\* the traversal list and yields newest to oldest; an iterator with
\* direction < 1 starts at the oldest end and yields oldest to newest.
C9_ForwardNewestFirst ==
    trace.state = "clean" =>
        /\ IsPrefix(trace.yielded,
                    IF iter.direction >= 1 THEN Reverse(recency) ELSE recency)
        /\ iter.key = IF trace.yielded = <<>> THEN NULL
                      ELSE trace.yielded[Len(trace.yielded)]

\* An iterator with direction 2 has yielded two of three entries of a table
\* in access-order mode.
C9_Witness ==
    /\ trace.state = "clean"
    /\ iter.direction = 2
    /\ h.access_order
    /\ Len(recency) = 3
    /\ trace.yielded = <<recency[3], recency[2]>>

\* C10: in insertion-order mode an iterator with direction 1 yields the keys
\* from the most recently inserted to the least recently inserted, and one
\* with direction -1 yields them in insertion order.
C10_IterationOrder ==
    (~h.access_order /\ trace.state = "clean" /\ trace.done) =>
        /\ iter.direction = 1 => trace.yielded = Reverse(recency)
        /\ iter.direction = -1 => trace.yielded = recency

\* An iterator with direction -1 is exhausted after yielding three keys in
\* insertion order, 100 having been removed and inserted again.
C10_Witness ==
    /\ ~h.access_order
    /\ trace.state = "clean"
    /\ trace.done
    /\ iter.direction = -1
    /\ trace.yielded = <<200, 300, 100>>

\* What a caller collects by iterating in a direction over the table as it
\* is; one call more than count is allowed, so that a surplus shows.
Iterate(s, direction) ==
    iter_drain(s, l_hashtbl_iter_init(s, direction), l_hashtbl_count(s) + 1)

KeysYielded(run) == [i \in 1..Len(run) |-> run[i].key]

\* C11: on a table that is not modified meanwhile, l_hashtbl_iter_next
\* returns 1 exactly count times, exposes every live key once with its
\* current value, and the run in the reverse direction is the reverse of the
\* run in the forward direction.  The calls a caller has made so far are a
\* prefix of that run.
C11_IterateOnce ==
    /\ \A d \in Directions :
          LET run == Iterate(S, d)
          IN  /\ Len(run) = l_hashtbl_count(S)
              /\ Cardinality(PresentKeys(S)) = l_hashtbl_count(S)
              /\ {run[i].key : i \in 1..Len(run)} = PresentKeys(S)
              /\ \A i \in 1..Len(run) : run[i].val = LookupVal(S, run[i].key)
    /\ Iterate(S, -1) = Reverse(Iterate(S, 1))
    /\ trace.state = "clean" =>
          LET keys == KeysYielded(Iterate(S, iter.direction))
          IN  /\ IsPrefix(trace.yielded, keys)
              /\ trace.done => trace.yielded = keys
              /\ Len(trace.yielded) = Len(keys) =>
                    l_hashtbl_iter_next(S, iter) = {[iter |-> iter, ret |-> 0]}
              /\ trace.yielded # <<>> => iter.val = LookupVal(S, iter.key)

\* In access-order mode an iterator that runs from the oldest entry has
\* yielded the three entries and reported exhaustion; the last entry holds a
\* replaced value.
C11_Witness ==
    /\ trace.state = "clean"
    /\ trace.done
    /\ iter.direction = 0
    /\ h.access_order
    /\ trace.yielded = <<300, 100, 200>>
    /\ iter.val = MaxVal
    /\ l_hashtbl_count(S) = 3

\* C12: on an empty table the first l_hashtbl_iter_next after
\* l_hashtbl_iter_init returns 0; and once it has returned 0, every further
\* call on the unmodified table returns 0.
C12_ExhaustionTerminal ==
    (trace.state = "clean" /\ last.op = "iter_next") =>
        /\ l_hashtbl_count(S) = 0 => (last.ret = 0 /\ trace.yielded = <<>>)
        /\ trace.after > 0 => (last.ret = 0 /\ trace.done)
        /\ trace.done =>
              l_hashtbl_iter_next(S, iter) = {[iter |-> iter, ret |-> 0]}

\* l_hashtbl_iter_next has been called MaxAfter times more after it reported
\* exhaustion at the end of a table of two entries.
C12_Witness ==
    /\ trace.state = "clean"
    /\ last.op = "iter_next"
    /\ trace.after = MaxAfter
    /\ Len(trace.yielded) = 2
    /\ iter.direction = -1

\* The capacity a request stands for: the least power of two that is not
\* below it, within 1 and the maximum table size.
PowersOfTwo == {2 ^ i : i \in 0..30}

Clamped(request) ==
    IF request < 1 THEN 1
    ELSE IF request >= LINKED_HASHTBL_MAX_TABLE_SIZE
    THEN LINKED_HASHTBL_MAX_TABLE_SIZE
    ELSE CHOOSE p \in PowersOfTwo :
             p >= request /\ \A q \in PowersOfTwo : q >= request => p <= q

\* What the callers can observe is the same in both states of the step.
SameTable(n) ==
    /\ l_hashtbl_count(After(n)) = l_hashtbl_count(S)
    /\ l_hashtbl_capacity(After(n)) = l_hashtbl_capacity(S)
    /\ n.h.resize_threshold = h.resize_threshold
    /\ Contents(After(n)) = Contents(S)
    /\ KeysByNext(After(n)) = KeysByNext(S)
    /\ KeysByPrev(After(n)) = KeysByPrev(S)
    /\ n.h = h
    /\ n.heap = heap
    /\ n.blocks = blocks

\* C13: an insert of an absent key for which malloc_fn gives no entry record
\* returns 1 and leaves the table as it was (count, capacity, every lookup,
\* the traversal order); neither the eviction hook nor l_hashtbl_resize is
\* called.
C13_Step(n) ==
    (n.last.op = "insert" /\ ~n.env.entry_ok
         /\ n.last.key \notin PresentKeys(S)) =>
        /\ n.last.ret = 1
        /\ SameTable(n)
        /\ n.env.evictor = <<>>
        /\ n.env.resize = <<>>

C13_InsertWithoutMemory ==
    handle # NULL =>
        \A k \in KeysMem, v \in Vals, entry_ok \in BOOLEAN,
           table_ok \in BOOLEAN :
            C13_Step(InsertWithStep(k, v, entry_ok, table_ok, INT_MIN))

\* The failed insert was made on a table that a successful insert of a new
\* key would have evicted from and resized.
C13_Witness ==
    /\ last.op = "insert"
    /\ last.ret = 1
    /\ ~env.entry_ok
    /\ h.auto_resize
    /\ h.evictor_fn.kind = "count_gt"
    /\ l_hashtbl_count(S) = h.evictor_fn.n
    /\ l_hashtbl_count(S) = 1
    /\ l_hashtbl_count(S) + 1 >= h.resize_threshold

\* C14: a resize to a capacity above the current one for which malloc_fn
\* gives no bucket array returns 1 and leaves the table as it was: capacity,
\* resize threshold, count, every lookup and the traversal order.
C14_Step(n) ==
    (n.last.op = "resize" /\ ~n.env.table_ok
         /\ Clamped(n.env.resize[1]) > l_hashtbl_capacity(S)) =>
        /\ n.last.ret = 1
        /\ SameTable(n)

C14_ResizeWithoutMemory ==
    handle # NULL =>
        \A capacity \in 0..MaxCapacity, malloc_ok \in BOOLEAN :
            C14_Step(ResizeWithStep(capacity, malloc_ok))

\* As in test24: two entries, and a request that is rounded up to twice the
\* capacity.
C14_Witness ==
    /\ last.op = "resize"
    /\ last.ret = 1
    /\ ~env.table_ok
    /\ env.resize = <<3>>
    /\ l_hashtbl_capacity(S) = 2
    /\ l_hashtbl_count(S) = 2

\* The step is an insert whose automatic resize asked malloc_fn for a bucket
\* array and did not get it.
AutoResizeFailed(n) ==
    /\ n.last.op = "insert"
    /\ n.env.resize # <<>>
    /\ Clamped(n.env.resize[1]) > l_hashtbl_capacity(S)
    /\ ~n.env.table_ok

\* C15, as claimed: when the allocation of the automatic resize fails the
\* insert returns 0, the new entry is present and counted, and the capacity
\* is the one before the call.
C15_AsClaimedStep(n) ==
    AutoResizeFailed(n) =>
        /\ n.last.ret = 0
        /\ n.last.key \in PresentKeys(After(n))
        /\ l_hashtbl_count(After(n))
               = Cardinality(PresentKeys(After(n)) \cup {n.last.key})
        /\ l_hashtbl_capacity(After(n)) = l_hashtbl_capacity(S)

C15_EntryAlwaysPresent ==
    handle # NULL =>
        \A k \in KeysMem, v \in Vals, entry_ok \in BOOLEAN,
           table_ok \in BOOLEAN :
            C15_AsClaimedStep(InsertWithStep(k, v, entry_ok, table_ok, INT_MIN))

\* C15, amended: when the allocation of the automatic resize fails the
\* insert returns 0 and the capacity is the one before the call; the new
\* entry is present and counted unless the eviction of this same insert
\* removed it, which happens when the hook fires on a table that held no
\* other entry: then the table is empty on return.
C15_AmendedStep(n) ==
    AutoResizeFailed(n) =>
        /\ n.last.ret = 0
        /\ l_hashtbl_capacity(After(n)) = l_hashtbl_capacity(S)
        /\ n.h.resize_threshold = h.resize_threshold
        /\ l_hashtbl_count(After(n)) = Cardinality(PresentKeys(After(n)))
        /\ l_hashtbl_count(After(n))
               = l_hashtbl_count(S) + 1 - Cardinality(n.last.evicted)
        /\ n.last.key \notin n.last.evicted
               => n.last.key \in PresentKeys(After(n))
        /\ n.last.key \in n.last.evicted =>
              /\ PresentKeys(S) = {}
              /\ PresentKeys(After(n)) = {}
              /\ n.env.evictor = <<1>>

C15_AutoResizeFailureIsBenign ==
    handle # NULL =>
        \A k \in KeysMem, v \in Vals, entry_ok \in BOOLEAN,
           table_ok \in BOOLEAN :
            C15_AmendedStep(InsertWithStep(k, v, entry_ok, table_ok, INT_MIN))

\* A second entry has been inserted into a table of capacity 1 that could
\* not grow.
C15_Witness ==
    /\ last.op = "insert"
    /\ last.ret = 0
    /\ ~last.hit
    /\ ~env.table_ok
    /\ env.resize = <<2>>
    /\ l_hashtbl_capacity(S) = 1
    /\ l_hashtbl_count(S) = 2
    /\ last.key \in PresentKeys(S)

\* C16: l_hashtbl_create returns NULL when malloc_fn gives no table record
\* and when it gives no bucket array; in both cases no block is outstanding
\* afterwards, the table record having been given to free_fn in the second.
C16_CreateWithoutMemory ==
    last.op = "create" =>
        /\ (~env.h_ok \/ ~env.table_ok) =>
              /\ last.ret = NULL
              /\ handle = NULL
              /\ blocks = NoBlocks
              /\ DOMAIN heap = {}
        /\ (env.h_ok /\ env.table_ok) =>
              /\ last.ret # NULL
              /\ handle # NULL
              /\ blocks = [NoBlocks EXCEPT !.h = 1, !.table = 1]

\* As in test22: the table record was allocated, the bucket array was not.
C16_Witness ==
    /\ last.op = "create"
    /\ env.h_ok
    /\ ~env.table_ok
    /\ env.resize # <<>>
    /\ handle = NULL
    /\ blocks.h = 0

\* C17: the capacity is always a power of two from 1 to the maximum table
\* size.  A create or a growing resize makes it the clamped request (1 for a
\* request below 1, the maximum for one at or above it, the next power of
\* two otherwise), and no call leaves it below the clamped request it was
\* made with unless malloc_fn fails - whatever int the product
\* 2 * table_size yields when the capacity is the maximum.
C17_CapacityPowerOfTwo ==
    handle # NULL =>
        /\ l_hashtbl_capacity(S) \in PowersOfTwo
        /\ 1 <= l_hashtbl_capacity(S)
        /\ l_hashtbl_capacity(S) <= LINKED_HASHTBL_MAX_TABLE_SIZE
        /\ last.op = "create" =>
              l_hashtbl_capacity(S) = Clamped(env.resize[1])
        /\ (last.op = "resize" /\ last.hit) =>
              l_hashtbl_capacity(S) = Clamped(env.resize[1])
        /\ (last.op \in {"resize", "insert"} /\ env.resize # <<>>
                /\ env.table_ok) =>
              l_hashtbl_capacity(S) >= Clamped(env.resize[1])

\* An insert into a table of the maximum capacity has asked for twice that
\* capacity, and the product came out as INT_MIN.
C17_Witness ==
    /\ l_hashtbl_capacity(S) = LINKED_HASHTBL_MAX_TABLE_SIZE
    /\ last.op = "insert"
    /\ last.ret = 0
    /\ env.resize = <<INT_MIN>>
    /\ l_hashtbl_count(S) = 2

\* C18: no call lowers the capacity.  A resize whose clamped request is not
\* above the current capacity returns 0 and changes nothing; clear and
\* remove leave the capacity as it is.
C18_Step(n) ==
    /\ l_hashtbl_capacity(After(n)) >= l_hashtbl_capacity(S)
    /\ (n.last.op = "resize"
            /\ Clamped(n.env.resize[1]) <= l_hashtbl_capacity(S)) =>
          (n.last.ret = 0 /\ SameTable(n))
    /\ n.last.op \in {"clear", "remove"} =>
          l_hashtbl_capacity(After(n)) = l_hashtbl_capacity(S)

C18_CapacityNeverDecreases ==
    /\ \A k \in KeysMem, v \in Vals, table_ok \in BOOLEAN,
          overflow \in TwiceOverflows(h.table_size) :
          C18_Step(InsertWithStep(k, v, TRUE, table_ok, overflow))
    /\ \A k \in KeysMem : C18_Step(RemoveStep(k))
    /\ C18_Step(ClearStep)
    /\ \A capacity \in CapRequests :
          C18_Step(ResizeWithStep(capacity, TRUE))

\* A resize to half the capacity has been refused on a table of two
\* entries.
C18_Witness ==
    /\ last.op = "resize"
    /\ last.ret = 0
    /\ ~last.hit
    /\ env.resize = <<2>>
    /\ l_hashtbl_capacity(S) = 4
    /\ l_hashtbl_count(S) = 2

\* round(capacity x max_load_factor), halves rounded up.
RoundedLoad(capacity, lf) ==
    IF capacity % lf.den = 0 THEN (capacity \div lf.den) * lf.num
    ELSE (2 * capacity * lf.num + lf.den) \div (2 * lf.den)

\* C19: an insert doubles the capacity exactly when it creates an entry on a
\* table with auto-resize, the count after the eviction is at least
\* round(capacity x max_load_factor), the capacity is below the maximum and
\* malloc_fn gives the bucket array; any other insert leaves the capacity as
\* it is.
C19_Step(n) ==
    n.last.op = "insert" =>
        LET capacity == l_hashtbl_capacity(S)
            created == n.last.ret = 0 /\ n.last.key \notin PresentKeys(S)
            due == /\ created
                   /\ h.auto_resize
                   /\ l_hashtbl_count(After(n))
                          >= RoundedLoad(capacity, h.max_load_factor)
                   /\ capacity < LINKED_HASHTBL_MAX_TABLE_SIZE
                   /\ n.env.table_ok
        IN  /\ due => l_hashtbl_capacity(After(n)) = 2 * capacity
            /\ ~due => l_hashtbl_capacity(After(n)) = capacity
            /\ l_hashtbl_count(After(n))
                   = l_hashtbl_count(S) + (IF created THEN 1 ELSE 0)
                         - Cardinality(n.last.evicted)
            /\ created => n.env.evictor = <<l_hashtbl_count(S) + 1>>

C19_AutoResizeDecision ==
    \A k \in KeysMem, v \in Vals, table_ok \in BOOLEAN,
        overflow \in TwiceOverflows(h.table_size) :
        C19_Step(InsertWithStep(k, v, TRUE, table_ok, overflow))

\* An insert has evicted an entry; the count before the eviction had reached
\* the threshold, the count after it has not, and the table has not grown.
C19_Witness ==
    /\ last.op = "insert"
    /\ last.ret = 0
    /\ last.evicted # {}
    /\ h.auto_resize
    /\ env.table_ok
    /\ env.resize = <<>>
    /\ l_hashtbl_count(S) < h.resize_threshold
    /\ l_hashtbl_count(S) + 1 >= h.resize_threshold
    /\ l_hashtbl_capacity(S) = 2

\* The table a create with the parameters of s and its capacity returns.
Fresh(s) ==
    l_hashtbl_create(s.h.table_size, s.h.max_load_factor, s.h.auto_resize,
                     s.h.access_order, s.h.hash_fn, s.h.equals_fn,
                     s.h.key_free_fn, s.h.val_free_fn, s.h.evictor_fn,
                     TRUE, TRUE).s

\* C20: after a clear the count is 0, every bucket and the traversal list
\* are empty, every lookup finds nothing and a new iterator is exhausted at
\* once; and the table is in the state of a freshly created table of the
\* same capacity, so every later call behaves as on such a table.
C20_ClearedIsFresh ==
    last.op = "clear" =>
        /\ l_hashtbl_count(S) = 0
        /\ h.table = EmptyTable
        /\ h.all_entries = [next |-> HEAD, prev |-> HEAD]
        /\ DOMAIN heap = {}
        /\ \A k \in AllKeys : LookupVal(S, k) = NULL
        /\ \A d \in Directions :
              l_hashtbl_iter_next(S, l_hashtbl_iter_init(S, d))
                  = {[iter |-> l_hashtbl_iter_init(S, d), ret |-> 0]}
        /\ S = Fresh(S)
        /\ \A k \in Keys, v \in Vals :
              l_hashtbl_insert(S, k, v, TRUE, TRUE, INT_MIN)
                  = l_hashtbl_insert(Fresh(S), k, v, TRUE, TRUE, INT_MIN)

\* A table that held entries in one chain has been cleared after it had
\* grown to capacity 4.
C20_Witness ==
    /\ last.op = "clear"
    /\ last.hit
    /\ h.hash_fn = "const_hash"
    /\ h.access_order
    /\ h.auto_resize
    /\ l_hashtbl_capacity(S) = 4

(***************************************************************************)
(* apply                                                                   *)
(***************************************************************************)
\* The position, in the sequence keys, of the first key for which fn
\* returns 0; the length of keys when there is none.
FirstZero(keys, fn) ==
    LET zeros == {i \in 1..Len(keys) : fn[keys[i]] = 0}
    IN  IF zeros = {} THEN Len(keys)
        ELSE CHOOSE i \in zeros : \A j \in zeros : i <= j

\* The callbacks of the tests: 1 to go on, 0 to terminate.
ZeroOrOne(fn) == \A k \in DOMAIN fn : fn[k] \in {0, 1}

\* C21: l_hashtbl_apply calls fn once per entry in traversal order (the
\* order of an iterator of direction 1) and returns the number of calls it
\* made; no entry after the last call is visited.  With a callback that
\* returns 1 to go on and 0 to terminate, that number is the count when fn
\* never terminates, else the position of the first entry at which it did.
C21_ApplyVisitsInOrder ==
    last.op = "apply" =>
        /\ last.ret = Len(env.visited)
        /\ last.ret <= l_hashtbl_count(S)
        /\ env.visited = SubSeq(KeysByNext(S), 1, last.ret)
        /\ env.visited = SubSeq(KeysYielded(Iterate(S, 1)), 1, last.ret)
        /\ ZeroOrOne(env.apply) =>
              last.ret = FirstZero(KeysByNext(S), env.apply)
        /\ (\A k \in PresentKeys(S) : env.apply[k] = 1) =>
              last.ret = l_hashtbl_count(S)

\* apply on three entries was terminated by the second.
C21_Witness ==
    /\ last.op = "apply"
    /\ ZeroOrOne(env.apply)
    /\ l_hashtbl_count(S) = 3
    /\ last.ret = 2
    /\ env.apply[env.visited[1]] = 1
    /\ env.apply[env.visited[2]] = 0

\* C22: in the plain and in the linked table, apply ends the enumeration
\* before the last entry only at an entry for which the callback returned
\* 0; every other value goes on with the next entry.
C22_StopsOnlyOnZero ==
    /\ last.op = "apply" /\ last.ret < l_hashtbl_count(S) =>
          env.apply[env.visited[last.ret]] = 0
    /\ plain.last.op = "apply" /\ plain.last.ret < hashtbl_count(P) =>
          plain.env.apply[plain.env.visited[plain.last.ret]] = 0

(***************************************************************************)
(* The eviction hook                                                       *)
(***************************************************************************)
\* The key at the tail of the traversal list once k has been linked into
\* the table s: the oldest entry of s, or k itself when s is empty.
TailWith(s, k) == IF l_hashtbl_count(s) = 0 THEN k ELSE KeysByPrev(s)[1]

\* C23: the eviction hook is called exactly once by an insert that creates
\* an entry, with the count that includes the new entry, and not at all by
\* an insert that replaces a value or fails.  When the hook returns true,
\* exactly the entry at the tail of the traversal list is removed, even if
\* it is the new entry; the insert returns 0 in either case.
C23_Step(n) ==
    n.last.op = "insert" =>
        LET k == n.last.key
            created == k \notin PresentKeys(S) /\ n.env.entry_ok
            count == l_hashtbl_count(S) + 1
        IN  IF ~created
            THEN /\ n.env.evictor = <<>>
                 /\ n.last.evicted = {}
                 /\ PresentKeys(After(n)) = PresentKeys(S)
            ELSE /\ n.env.evictor = <<count>>
                 /\ n.last.ret = 0
                 /\ IF evictor_fn(h.evictor_fn, count)
                    THEN /\ n.last.evicted = {TailWith(S, k)}
                         /\ PresentKeys(After(n))
                                = (PresentKeys(S) \cup {k}) \ {TailWith(S, k)}
                         /\ l_hashtbl_count(After(n)) = count - 1
                    ELSE /\ n.last.evicted = {}
                         /\ PresentKeys(After(n)) = PresentKeys(S) \cup {k}
                         /\ l_hashtbl_count(After(n)) = count

C23_EvictionHook ==
    handle # NULL =>
        \A k \in KeysMem, v \in Vals, entry_ok \in BOOLEAN,
           table_ok \in BOOLEAN :
            C23_Step(InsertWithStep(k, v, entry_ok, table_ok, INT_MIN))

\* With a policy that always evicts, the insert of a new key into the empty
\* table has returned 0 and has evicted that key: the count is 0.
C23_Witness ==
    /\ last.op = "insert"
    /\ last.ret = 0
    /\ env.entry_ok
    /\ h.evictor_fn = [kind |-> "count_gt", n |-> 0]
    /\ env.evictor = <<1>>
    /\ last.evicted = {last.key}
    /\ l_hashtbl_count(S) = 0

(***************************************************************************)
(* The position of a new entry                                             *)
(***************************************************************************)
\* C24: an insert that creates an entry - for a key never inserted before,
\* or for a key that has been removed or evicted - puts it at the newest
\* position of the traversal order, ahead of every entry that was present,
\* and these keep their order.
C24_Step(n) ==
    (n.last.op = "insert" /\ n.last.key \notin PresentKeys(S)
         /\ n.last.key \in PresentKeys(After(n))) =>
        /\ Head(KeysByNext(After(n))) = n.last.key
        /\ KeysByPrev(After(n))[l_hashtbl_count(After(n))] = n.last.key
        /\ Tail(KeysByNext(After(n)))
              = Keep(KeysByNext(S), AllKeys \ n.last.evicted)

C24_NewEntryIsNewest ==
    \A k \in Keys, v \in Vals :
        C24_Step(InsertWithStep(k, v, TRUE, TRUE, INT_MIN))

\* A key has been inserted into a table that holds two older entries and
\* from which a key had been removed, or which had been cleared or resized.
C24_Witness ==
    /\ last.op = "insert"
    /\ ~last.hit
    /\ last.ret = 0
    /\ h.evictor_fn.kind = "remove_eldest"
    /\ ~inserted.ok
    /\ l_hashtbl_count(S) = 3
    /\ Head(KeysByNext(S)) = last.key

(***************************************************************************)
(* The load factor given to create                                         *)
(***************************************************************************)
\* The default load factor, 0.75.
DefaultLoadFactor == [num |-> 3, den |-> 4]

\* C25: a table created with a max_load_factor of 0.0 or below has the
\* default load factor 0.75, and its resize threshold is
\* round(capacity x 0.75), in the linked and in the plain table.
C25_ZeroLoadFactorIsDefault ==
    /\ last.op = "create" /\ env.load_factor.num <= 0 =>
          /\ h.max_load_factor = DefaultLoadFactor
          /\ h.resize_threshold
                 = resize_threshold(l_hashtbl_capacity(S), DefaultLoadFactor)
    /\ plain.last.op = "create" /\ plain.env.load_factor.num <= 0 =>
          /\ plain.h.max_load_factor = DefaultLoadFactor
          /\ plain.h.resize_threshold
                 = hashtbl_resize_threshold(hashtbl_capacity(P),
                                            DefaultLoadFactor)

(***************************************************************************)
(* The plain table beside the linked table                                 *)
(***************************************************************************)
\* The calls the two tables have in common with the same meaning of the
\* result.
CommonOps == {"create", "insert", "lookup", "remove", "clear", "resize"}

C27_Step ==
    (plain'.last.op = "insert" /\ ~plain'.env.entry_ok
         /\ plain'.last.key \notin PlainPresentKeys(P)) =>
        /\ plain'.last.ret = 1
        /\ plain'.h.nentries = hashtbl_count(P)
        /\ plain'.h.table_size = hashtbl_capacity(P)
        /\ PlainContents([h |-> plain'.h, heap |-> plain'.heap])
               = PlainContents(P)

C27_PlainInsertWithoutMemory == [][C27_Step]_vars

(***************************************************************************)
(* The iterator of the plain table                                         *)
(***************************************************************************)
\* What a caller collects by iterating over the plain table as it is; one
\* call more than count is allowed, so that a surplus shows.
PlainIterate(t) ==
    hashtbl_iter_drain(t, hashtbl_iter_init(t), hashtbl_count(t) + 1)

\* C28: on a plain table that is not modified meanwhile, hashtbl_iter_next
\* returns 1 exactly count times and yields every entry once, with its key
\* and value, however the entries lie in the buckets; once it has returned
\* 0, every further call returns 0.  The calls a caller has made so far are
\* a prefix of that run.
C28_PlainIterateOnce ==
    /\ LET run == PlainIterate(P)
       IN  /\ Len(run) = hashtbl_count(P)
           /\ Cardinality(PlainPresentKeys(P)) = hashtbl_count(P)
           /\ {run[i].key : i \in 1..Len(run)} = PlainPresentKeys(P)
           /\ \A i \in 1..Len(run) : run[i].val = hashtbl_lookup(P, run[i].key)
    /\ plain.trace.state = "clean" =>
          LET keys == KeysYielded(PlainIterate(P))
          IN  /\ IsPrefix(plain.trace.yielded, keys)
              /\ plain.trace.done => plain.trace.yielded = keys
              /\ plain.trace.after > 0 => plain.last.ret = 0
              /\ (plain.trace.done \/ Len(plain.trace.yielded) = Len(keys)) =>
                    hashtbl_iter_next(P, plain.iter).ret = 0

\* Slot i of the bucket array of the plain table holds a chain.
Occupied(i) == i \in DOMAIN plain.h.table /\ plain.h.table[i] # NULL

\* There is an empty slot between two occupied ones.
PlainGap ==
    \E i, j, k \in 0..(plain.h.table_size - 1) :
        i < j /\ j < k /\ Occupied(i) /\ ~Occupied(j) /\ Occupied(k)

\* The iterator has yielded the three entries of a table of two slots, two
\* of them in one chain and one in the last slot, and has then been called
\* MaxAfter times more.
C28_Witness ==
    /\ plain.trace.state = "clean"
    /\ plain.last.op = "iter_next"
    /\ plain.trace.after = MaxAfter
    /\ Len(plain.trace.yielded) = 3
    /\ hashtbl_capacity(P) = 2
    /\ Occupied(0)
    /\ Occupied(1)
    /\ \E e \in DOMAIN plain.heap : plain.heap[e].next # NULL

(***************************************************************************)
(* The LEB128 codecs                                                       *)
(***************************************************************************)
\* C29: for each of the four codec pairs and every value of its type, the
\* decoder gives back the value the matching encoder was given, and the
\* pointer it returns is the start of the buffer advanced by the number of
\* bytes the encoder returned.
C29_RoundTrip ==
    /\ leb.stage \in {"encoded", "decoded"} =>
          /\ leb.ret = Len(leb.buf)
          /\ leb.ret >= 1
    /\ leb.stage = "decoded" =>
          /\ leb.result = leb.value
          /\ leb.p = leb.ret

\* A negative long long of nine bytes has been decoded: the sign is
\* extended from bit 63.
C29_Witness ==
    /\ leb.stage = "decoded"
    /\ leb.codec = "ll"
    /\ (LongLongBits - 1) \in leb.value
    /\ leb.ret = 9
    /\ leb.result = leb.value

(***************************************************************************)
(* The structure of the linked table                                       *)
(***************************************************************************)
\* The elements of a sequence.
Elements(seq) == {seq[i] : i \in 1..Len(seq)}

\* The entries of all_entries, following next from the list head.
ListEntries(s) ==
    Walk(s, s.h.all_entries.next, TRUE, Cardinality(DOMAIN s.heap) + 1)

\* C30: between operations, the entries reachable through the bucket
\* chains are the entries on the traversal list; each is once in one chain
\* and once on the list, in the chain of the bucket hash & (capacity - 1);
\* and count is their number.
C30_Structure ==
    LET list == ListEntries(S)
        slots == DOMAIN h.table
    IN  /\ slots \subseteq 0..(l_hashtbl_capacity(S) - 1)
        /\ \A i \in slots :
              LET chain == Chain(S, i)
              IN  /\ chain # <<>>
                  /\ Len(chain) = Cardinality(Elements(chain))
                  /\ heap[chain[Len(chain)]].next = NULL
                  /\ \A e \in Elements(chain) :
                        SlotIndex(heap[e].hash, l_hashtbl_capacity(S)) = i
        /\ \A i, j \in slots :
              i # j => Elements(Chain(S, i)) \cap Elements(Chain(S, j)) = {}
        /\ UNION {Elements(Chain(S, i)) : i \in slots} = Elements(list)
        /\ Elements(list) = DOMAIN heap
        /\ Len(list) = Cardinality(Elements(list))
        /\ IF list = <<>> THEN h.all_entries = [next |-> HEAD, prev |-> HEAD]
           ELSE heap[list[Len(list)]].list.next = HEAD
        /\ Walk(S, h.all_entries.prev, FALSE, Cardinality(DOMAIN heap) + 1)
               = Reverse(list)
        /\ l_hashtbl_count(S) = Len(list)

\* A resize has moved three entries into two buckets, one of which holds a
\* chain of two.
C30_Witness ==
    /\ last.op = "resize"
    /\ last.hit
    /\ l_hashtbl_count(S) = 3
    /\ l_hashtbl_capacity(S) = 2
    /\ DOMAIN h.table = {0, 1}
    /\ \E i \in DOMAIN h.table : Len(Chain(S, i)) = 2

\* C31: between operations all_entries is a closed circular doubly-linked
\* list through the sentinel: every node n, the sentinel included, has
\* n.next.prev = n and n.prev.next = n, following next from the sentinel
\* comes back to the sentinel after exactly count entries, and the sentinel
\* of an empty table is linked to itself.
ListNodes(s) == {HEAD} \cup DOMAIN s.heap

\* The node reached from node by n steps along next.
RECURSIVE NextTimes(_, _, _)
NextTimes(s, node, n) ==
    IF n = 0 \/ node \notin ListNodes(s) THEN node
    ELSE NextTimes(s, list_head(s, node).next, n - 1)

C31_ClosedCircularList ==
    handle # NULL =>
        /\ \A n \in ListNodes(S) :
              /\ list_head(S, n).next \in ListNodes(S)
              /\ list_head(S, n).prev \in ListNodes(S)
              /\ list_head(S, list_head(S, n).next).prev = n
              /\ list_head(S, list_head(S, n).prev).next = n
        /\ NextTimes(S, HEAD, l_hashtbl_count(S) + 1) = HEAD
        /\ \A i \in 1..l_hashtbl_count(S) : NextTimes(S, HEAD, i) # HEAD
        /\ l_hashtbl_count(S) = 0 =>
              h.all_entries = [next |-> HEAD, prev |-> HEAD]

\* A lookup in access-order mode has moved an entry from the middle of a
\* list of three entries to its head.
C31_Witness ==
    /\ last.op = "lookup" /\ last.hit /\ h.access_order
    /\ l_hashtbl_count(S) = 3
    /\ recency[2] # last.key
    /\ heap[h.all_entries.next].key = last.key

\* C32: on a table with val_free_fn configured, whose caller never stores
\* one value object under two different keys, no live entry holds a value
\* that the table has passed to val_free_fn, and no value is passed to
\* val_free_fn twice - also after insert(k, v) repeated with the same k and
\* the same v.
C32_NoValueReleasedWhileHeld ==
    (handle # NULL /\ h.val_free_fn) =>
        /\ \A e \in DOMAIN heap : TimesFreed(blocks.vals, heap[e].val) = 0
        /\ \A v \in DOMAIN blocks.vals : blocks.vals[v] <= 1

\* What an iterator that is not disturbed shows: no key is yielded twice,
\* only live keys are yielded, and once it has reported exhaustion every
\* live key has been yielded.
YieldsEachOnce ==
    /\ \A i, j \in 1..Len(trace.yielded) :
          trace.yielded[i] = trace.yielded[j] => i = j
    /\ Elements(trace.yielded) \subseteq LiveKeys(S)
    /\ trace.done => Elements(trace.yielded) = LiveKeys(S)

\* C33 as claimed: with lookups of present keys between the calls of
\* l_hashtbl_iter_next, in insertion-order and in access-order mode, the
\* iterator yields every live entry exactly once and then reports
\* exhaustion.
C33_LookupKeepsIterator == trace.state = "live" => YieldsEachOnce

\* C33 as amended: in insertion-order mode, with lookups of present keys
\* between the calls of l_hashtbl_iter_next, the iterator yields every live
\* entry exactly once and then reports exhaustion.
C33_LookupKeepsIteratorInInsertionOrder ==
    (trace.state = "live" /\ ~h.access_order) => YieldsEachOnce

\* In insertion-order mode, in the middle of an iteration over three
\* entries, a lookup has found the key the iterator had just yielded.
C33_Witness ==
    /\ trace.state = "live" /\ ~h.access_order
    /\ l_hashtbl_count(S) = 3
    /\ last.op = "lookup" /\ last.hit
    /\ Len(trace.yielded) = 2
    /\ last.key = trace.yielded[2]

\* The keys the iterator it will yield from state s on, if the table is
\* left alone.
KeysToCome(s, it) ==
    LET run == iter_drain(s, it, Cardinality(DOMAIN s.heap) + 1)
    IN  [i \in 1..Len(run) |-> run[i].key]

\* The live keys in the order of an iteration in the direction of iter.
OrderOfIter == IF iter.direction >= 1 THEN Reverse(recency) ELSE recency

\* C34: when the caller removes, between two calls of l_hashtbl_iter_next,
\* the entry the iterator has just yielded, the iterator is not disturbed:
\* its cursor never refers to the removed entry, no key is yielded twice,
\* and the calls to come yield exactly the entries not yet yielded, each
\* once and in their original order.
C34_RemoveYieldedKeepsIterator ==
    trace.state = "live" =>
        /\ iter.pos \in ListNodes(S)
        /\ iter.end = HEAD
        /\ \A i, j \in 1..Len(trace.yielded) :
              trace.yielded[i] = trace.yielded[j] => i = j
        /\ KeysToCome(S, iter)
              = Keep(OrderOfIter, AllKeys \ Elements(trace.yielded))
        /\ trace.done => KeysToCome(S, iter) = <<>>

\* The second of three entries has been yielded and removed, and the
\* iterator has then yielded the third.
C34_Witness ==
    /\ trace.state = "live"
    /\ Len(trace.yielded) = 3
    /\ trace.yielded[2] \notin LiveKeys(S)
    /\ trace.yielded[1] \in LiveKeys(S)
    /\ trace.yielded[3] \in LiveKeys(S)

\* C35: with auto-resize enabled, no allocation failure and a capacity
\* below the maximum, on return from every insert count is strictly below
\* the resize threshold round(capacity x max_load_factor) of the current
\* capacity, for every max_load_factor in (0, 1] and every initial
\* capacity.
C35_InsertRestoresLoadBound ==
    (/\ last.op = "insert" /\ last.ret = 0
     /\ h.auto_resize
     /\ env.entry_ok /\ env.table_ok
     /\ l_hashtbl_capacity(S) < LINKED_HASHTBL_MAX_TABLE_SIZE
     /\ h.max_load_factor.num > 0
     /\ h.max_load_factor.num <= h.max_load_factor.den)
        => /\ h.resize_threshold
                = resize_threshold(l_hashtbl_capacity(S), h.max_load_factor)
           /\ l_hashtbl_count(S) < h.resize_threshold

\* C36: a plain and a linked table created with the same capacity, load
\* factor and auto-resize flag, and given the same inserts and removes
\* (default eviction policy, no allocation failure), report the same
\* capacity after every call: an insert or a remove made on both tables
\* when their capacities are equal leaves them equal.
C36_Step ==
    (/\ l_hashtbl_capacity(S) = hashtbl_capacity(P)
     /\ last'.op \in {"insert", "remove"}
     /\ plain'.last.op = last'.op)
        => l_hashtbl_capacity([h |-> h', heap |-> heap', blocks |-> blocks'])
              = hashtbl_capacity([h |-> plain'.h, heap |-> plain'.heap])

C36_SameCapacity == [][C36_Step]_vars

\* The proviso of C37: key references that compare equal under the table's
\* equals_fn have the same hash value under its hash_fn.
EqualKeysHashEqually(s) ==
    \A a, b \in KeyRefs :
        equals_fn(s.h.equals_fn, a, b)
            => hash_fn(s.h.hash_fn, a) = hash_fn(s.h.hash_fn, b)

\* C37: provided keys that compare equal under equals_fn also hash equally,
\* no two live entries hold keys that compare equal, after any sequence of
\* inserts, removes, evictions, resizes and clears.
C37_NoTwoEntriesWithEqualKeys ==
    EqualKeysHashEqually(S)
        => \A e1, e2 \in DOMAIN heap :
               e1 # e2 => ~equals_fn(h.equals_fn, heap[e1].key, heap[e2].key)

\* An insert through a second reference to an equal key found the entry that
\* holds the first reference behind another entry of the same bucket chain.
C37_Witness ==
    /\ EqualKeysHashEqually(S)
    /\ h.equals_fn = "key_equals"
    /\ last.op = "insert" /\ last.hit
    /\ Cardinality(DOMAIN heap) = 2
    /\ \E e, e2 \in DOMAIN heap :
          /\ heap[e].key # last.key /\ key_equals(heap[e].key, last.key)
          /\ heap[e2].next = e

\* The entry records that the step n leaves in the table.
Others(n) == DOMAIN heap \cap DOMAIN n.heap

\* C38: a remove that finds its key, and the eviction of an insert, delete
\* only the targeted entry.  Of all other entries the keys, the values and
\* the hash values, their relative order along the traversal list in both
\* directions and the results of their lookups are unchanged, and, the
\* bucket array being the same, so is their relative order in every bucket
\* chain, whether they stood before or after the deleted entry.
C38_Step(n) ==
    (\/ n.last.op = "remove" /\ n.last.hit
     \/ n.last.op = "insert" /\ n.last.evicted # {})
    => /\ \A e \in DOMAIN heap \ Others(n) :
              heap[e].key \in (IF n.last.op = "remove" THEN {n.last.key}
                               ELSE n.last.evicted)
       /\ Cardinality(DOMAIN heap \ Others(n)) <= 1
       /\ \A e \in Others(n) :
              /\ n.heap[e].key = heap[e].key
              /\ n.heap[e].val = heap[e].val
              /\ n.heap[e].hash = heap[e].hash
              /\ LookupVal(After(n), heap[e].key) = LookupVal(S, heap[e].key)
       /\ Keep(Walk(After(n), n.h.all_entries.next, TRUE, Cardinality(DOMAIN n.heap) + 1), Others(n))
             = Keep(Walk(S, h.all_entries.next, TRUE, Cardinality(DOMAIN heap) + 1), Others(n))
       /\ Keep(Walk(After(n), n.h.all_entries.prev, FALSE, Cardinality(DOMAIN n.heap) + 1), Others(n))
             = Keep(Walk(S, h.all_entries.prev, FALSE, Cardinality(DOMAIN heap) + 1), Others(n))
       /\ n.h.table_size = h.table_size
             => \A slot \in 0..(h.table_size - 1) :
                    Keep(Chain(After(n), slot), Others(n)) = Keep(Chain(S, slot), Others(n))

C38_DeleteOnlyTheTarget ==
    /\ \A k \in Keys : C38_Step(RemoveStep(k))
    /\ \A k \in Keys, v \in Vals :
          C38_Step(InsertWithStep(k, v, TRUE, TRUE, INT_MIN))

\* A remove has taken the middle entry out of a bucket chain of three.
C38_Witness ==
    /\ last.op = "remove" /\ last.hit
    /\ \E slot \in 0..(h.table_size - 1) :
          /\ Len(Chain(S, slot)) = 2
          /\ heap[Chain(S, slot)[1]].key > last.key
          /\ heap[Chain(S, slot)[2]].key < last.key
          /\ hash_fn(h.hash_fn, last.key) = heap[Chain(S, slot)[1]].hash

\* The entry l_hashtbl_insert(k, v) finds in state s, or NULL.
EntryOf(s, k) == find_entry(s, hash_fn(s.h.hash_fn, k), k)

\* C39: when insert replaces the value of an existing key, the entry keeps
\* the key reference stored at its creation: the key reference passed to
\* the replacing call is not stored (no entry is created and no entry's key
\* changes) and nothing is passed to key_free_fn, and the replaced value is
\* passed to val_free_fn exactly once when val_free_fn is configured, and
\* to nothing otherwise.
C39_Step(n) ==
    (n.last.op = "insert" /\ n.last.hit)
    => LET entry == EntryOf(S, n.last.key)
       IN  /\ DOMAIN n.heap = DOMAIN heap
           /\ \A e \in DOMAIN heap : n.heap[e].key = heap[e].key
           /\ n.blocks.keys = blocks.keys
           /\ n.blocks.vals = IF h.val_free_fn
                             THEN Release(blocks.vals, heap[entry].val)
                             ELSE blocks.vals
           /\ \A v \in Vals :
                  TimesFreed(n.blocks.vals, v) - TimesFreed(blocks.vals, v)
                      = IF h.val_free_fn /\ v = heap[entry].val THEN 1 ELSE 0

C39_ReplaceKeepsStoredKey ==
    ~ReleasedTwice =>
        \A k \in KeyRefs, v \in Vals :
            InsertOwnAllowed(k, v)
                => C39_Step(InsertWithStep(k, v, TRUE, TRUE, INT_MIN))

\* With both free functions configured, an insert through a second reference
\* to the key has replaced the value of the entry that holds the first
\* reference by another value.
C39_Witness ==
    /\ last.op = "insert" /\ last.hit
    /\ h.key_free_fn /\ h.val_free_fn
    /\ EntryOf(S, last.key) # NULL
    /\ heap[EntryOf(S, last.key)].key # last.key
    /\ \E v \in Vals :
          /\ v # heap[EntryOf(S, last.key)].val
          /\ TimesFreed(blocks.vals, v) = 1
    /\ TimesFreed(blocks.keys, last.key) = 0

\* The blocks obtained through malloc_fn and not yet given to free_fn.
Outstanding(s) == s.blocks.h + s.blocks.table + Cardinality(DOMAIN s.heap)

\* C40: between the operations of a live table exactly count + 2 blocks are
\* outstanding - the table record, one bucket array and one record per live
\* entry - whatever inserts, removes, evictions, clears and resizes were
\* made and whichever allocations failed; after l_hashtbl_delete no block
\* is outstanding.
C40_BlocksOutstanding ==
    /\ handle # NULL
          => /\ Outstanding(S) = l_hashtbl_count(S) + 2
             /\ blocks.h = 1
             /\ blocks.table = 1
             /\ Cardinality(DOMAIN heap) = l_hashtbl_count(S)
    /\ last.op = "delete"
          => /\ Outstanding(S) = 0
             /\ blocks.h = 0
             /\ blocks.table = 0
             /\ DOMAIN heap = {}

\* A table that held entries has been deleted.
C40_Witness ==
    /\ last.op = "delete"
    /\ last.hit
    /\ handle = NULL
    /\ Outstanding(S) = 0

====
